---- MODULE Spec2Model ----
(***************************************************************************)
(* unifi-threat-sync: the sync orchestrator (Syncer.Run), the feed stage,  *)
(* the normalizer, the fingerprint, the UniFi firewall-group client, the   *)
(* health recorder and the main loop that drives them.                     *)
(*                                                                         *)
(* Strings that the program compares or sorts (canonical CIDR strings, the *)
(* text that is hashed) are sequences of character codes, so that Go's     *)
(* byte-wise string order is the order used here.  Names that are only     *)
(* compared for equality (feed, parser and group names, error kinds) are   *)
(* TLA+ strings.                                                           *)
(***************************************************************************)
EXTENDS Integers, Sequences, FiniteSets, TLC

\* ------------------------------------------------------------------ bounds
\* Number of Run calls (the initial sync plus ticker-driven syncs) explored.
MaxRuns == 3

\* Run calls explored when shutdown signals are explored too.
MaxSignalRuns == 2

\* Longest list of texts given to the parsing and normalizing functions.
MaxLen == 3

\* ----------------------------------------------------------------- strings
\* The decimal digits of n, as character codes ('0' = 48).
RECURSIVE Decimal(_)
Decimal(n) == IF n < 10 THEN <<48 + n>> ELSE Decimal(n \div 10) \o <<48 + (n % 10)>>

\* net.IP.String() of a 4-byte address: the octets in decimal, joined by '.' (46).
IPString(ip) == Decimal(ip[1]) \o <<46>> \o Decimal(ip[2]) \o <<46>> \o Decimal(ip[3]) \o <<46>> \o Decimal(ip[4])

\* An address of 16 bytes is held as its eight 16-bit groups, one of 4 bytes as
\* its four octets.  net.IP.To4(): the four octets of a 4-byte address or of a
\* 16-byte address with the IPv4-in-IPv6 prefix, and nil (<<>>) otherwise.
To4(ip) ==
    IF Len(ip) = 4 THEN ip
    ELSE IF Len(ip) = 8 /\ (\A i \in 1..5 : ip[i] = 0) /\ ip[6] = 65535
         THEN <<ip[7] \div 256, ip[7] % 256, ip[8] \div 256, ip[8] % 256>>
    ELSE <<>>

\* The lower-case hexadecimal digits of n, without leading zeros.
RECURSIVE Hex(_)
Hex(n) ==
    LET d == n % 16
        c == IF d < 10 THEN 48 + d ELSE 87 + d
    IN  IF n < 16 THEN <<c>> ELSE Hex(n \div 16) \o <<c>>

\* The groups of ip from position i to position j in hexadecimal, joined by ':' (58).
RECURSIVE HexGroups(_, _, _)
HexGroups(ip, i, j) ==
    IF i > j THEN <<>>
    ELSE IF i = j THEN Hex(ip[i])
    ELSE Hex(ip[i]) \o <<58>> \o HexGroups(ip, i + 1, j)

\* The length of the run of zero groups of ip that starts at position i.
RECURSIVE ZeroRun(_, _)
ZeroRun(ip, i) == IF i > Len(ip) \/ ip[i] # 0 THEN 0 ELSE 1 + ZeroRun(ip, i + 1)

\* net.IP.String() of a 16-byte address that is not IPv4-in-IPv6: the groups
\* in hexadecimal, the first longest run of two or more zero groups written "::".
IP6String(ip) ==
    LET longest == CHOOSE i \in 1..8 :
                      \A j \in 1..8 : ZeroRun(ip, j) < ZeroRun(ip, i)
                                      \/ (ZeroRun(ip, j) = ZeroRun(ip, i) /\ i <= j)
        n == ZeroRun(ip, longest)
    IN  IF n < 2 THEN HexGroups(ip, 1, 8)
        ELSE HexGroups(ip, 1, longest - 1) \o <<58, 58>> \o HexGroups(ip, longest + n, 8)

\* "<nil>", which String() gives for an IPNet whose address and mask do not fit.
NilString == <<60, 110, 105, 108, 62>>

\* net.IPNet.String(): address, '/' (47), prefix length.  network.bits is the
\* number of leading ones of the mask and network.size the mask's length in
\* bits.  The address is taken through To4 first; of a 16-byte mask on an IPv4
\* address only the last four bytes count.
String(network) ==
    LET ip4 == To4(network.ip)
    IN  IF Len(network.ip) = 0 THEN NilString
        ELSE IF ip4 # <<>>
             THEN IF network.size = 32
                  THEN IPString(ip4) \o <<47>> \o Decimal(network.bits)
                  ELSE IPString(ip4) \o <<47>>
                       \o Decimal(IF network.bits >= 96 THEN network.bits - 96 ELSE 0)
        ELSE IF network.size = 128
             THEN IP6String(network.ip) \o <<47>> \o Decimal(network.bits)
        ELSE NilString

\* Bind(v, F) is F(v) with v computed once, before F is.
Bind(v, F(_)) == CHOOSE r \in {F(x) : x \in {v}} : TRUE

\* Go's < on strings: byte-wise lexicographic, a proper prefix sorts first.
StrLess(a, b) ==
    \/ \E i \in 1..Len(a) :
          /\ i <= Len(b)
          /\ a[i] < b[i]
          /\ \A j \in 1..(i - 1) : a[j] = b[j]
    \/ /\ Len(a) < Len(b)
       /\ \A j \in 1..Len(a) : a[j] = b[j]

\* The keys of a set of distinct strings in ascending order.
RECURSIVE SortKeys(_)
SortKeys(S) ==
    IF S = {} THEN <<>>
    ELSE Bind(CHOOSE x \in S : \A y \in S : ~StrLess(y, x),
              LAMBDA m : <<m>> \o SortKeys(S \ {m}))

\* sort.Strings: the elements of strs (duplicates kept) in ascending order.
RECURSIVE SortStrings(_)
SortStrings(strs) ==
    IF strs = <<>> THEN <<>>
    ELSE Bind(CHOOSE k \in 1..Len(strs) : \A j \in 1..Len(strs) : ~StrLess(strs[j], strs[k]),
              LAMBDA i :
                  <<strs[i]>>
                  \o SortStrings([j \in 1..(Len(strs) - 1) |->
                                    IF j < i THEN strs[j] ELSE strs[j + 1]]))

\* ----------------------------------------------------------- parsing text
\* A text is the sequence of its character codes.  Text writes one from its
\* characters.
CharTable ==
    << <<" ", 32>>, <<"#", 35>>, <<".", 46>>, <<"/", 47>>, <<"0", 48>>, <<"1", 49>>,
       <<"2", 50>>, <<"3", 51>>, <<"4", 52>>, <<"5", 53>>, <<"6", 54>>, <<"7", 55>>,
       <<"8", 56>>, <<"9", 57>>, <<":", 58>>, <<";", 59>>, <<"a", 97>>, <<"b", 98>>,
       <<"c", 99>>, <<"d", 100>>, <<"e", 101>>, <<"f", 102>>, <<"x", 120>> >>

Text(chars) ==
    [i \in 1..Len(chars) |->
        CharTable[CHOOSE k \in 1..Len(CharTable) : CharTable[k][1] = chars[i]][2]]

\* strings.TrimSpace.
IsSpace(c) == c \in {9, 10, 11, 12, 13, 32}

RECURSIVE TrimLeft(_)
TrimLeft(s) ==
    IF s # <<>> /\ IsSpace(Head(s)) THEN Bind(Tail(s), LAMBDA t : TrimLeft(t)) ELSE s

RECURSIVE TrimRight(_)
TrimRight(s) ==
    IF s # <<>> /\ IsSpace(s[Len(s)])
    THEN Bind(SubSeq(s, 1, Len(s) - 1), LAMBDA t : TrimRight(t))
    ELSE s

TrimSpace(s) == Bind(TrimLeft(s), LAMBDA t : TrimRight(t))

\* The position of the first c in s, 0 when there is none.
IndexByte(s, c) ==
    IF \E i \in 1..Len(s) : s[i] = c
    THEN CHOOSE i \in 1..Len(s) : s[i] = c /\ \A j \in 1..(i - 1) : s[j] # c
    ELSE 0

\* The fields of s between the occurrences of c.
RECURSIVE Split(_, _)
Split(s, c) ==
    Bind(IndexByte(s, c), LAMBDA i :
        IF i = 0 THEN <<s>>
        ELSE <<SubSeq(s, 1, i - 1)>>
             \o Bind(SubSeq(s, i + 1, Len(s)), LAMBDA rest : Split(rest, c)))

\* The number written by the digits of s in the given base, -1 when s is empty
\* or holds another character.
DigitValue(c) ==
    IF c \in 48..57 THEN c - 48
    ELSE IF c \in 97..102 THEN c - 87
    ELSE IF c \in 65..70 THEN c - 55
    ELSE 99

RECURSIVE Number(_, _)
Number(s, base) ==
    IF s = <<>> THEN 0
    ELSE Bind(SubSeq(s, 1, Len(s) - 1), LAMBDA t : Number(t, base)) * base
         + DigitValue(s[Len(s)])

dtoi(s) ==
    IF s = <<>> \/ Len(s) > 6 \/ \E i \in 1..Len(s) : DigitValue(s[i]) >= 10 THEN -1
    ELSE Number(s, 10)

xtoi(s) ==
    IF s = <<>> \/ Len(s) > 4 \/ \E i \in 1..Len(s) : DigitValue(s[i]) >= 16 THEN -1
    ELSE Number(s, 16)

\* One field of a dotted IPv4 address: up to three digits, no leading zero,
\* at most 255.
Octet(f) ==
    Bind(dtoi(f), LAMBDA n :
        IF n = -1 \/ Len(f) > 3 \/ (Len(f) > 1 /\ f[1] = 48) \/ n > 255 THEN -1 ELSE n)

\* The four octets s writes in dotted form, <<>> when it is not one.
parseIPv4(s) ==
    Bind(Split(s, 46), LAMBDA f :
        IF Len(f) # 4 THEN <<>>
        ELSE Bind([i \in 1..4 |-> Octet(f[i])], LAMBDA o :
                 IF \E i \in 1..4 : o[i] = -1 THEN <<>> ELSE o))

\* The groups written by colon-separated fields, the last of which may be a
\* dotted IPv4 address (two groups); Bad when a field is not a group.
Bad == <<-1>>

RECURSIVE GroupsOf(_)
GroupsOf(fields) ==
    IF fields = <<>> THEN <<>>
    ELSE Bind(Head(fields), LAMBDA f :
         Bind(Bind(Tail(fields), LAMBDA t : GroupsOf(t)), LAMBDA rest :
             IF rest = Bad THEN Bad
             ELSE IF IndexByte(f, 46) # 0
                  THEN Bind(parseIPv4(f), LAMBDA v :
                           IF Tail(fields) # <<>> \/ v = <<>> THEN Bad
                           ELSE <<v[1] * 256 + v[2], v[3] * 256 + v[4]>>)
             ELSE Bind(xtoi(f), LAMBDA g : IF g = -1 THEN Bad ELSE <<g>> \o rest)))

Groups(s) == IF s = <<>> THEN <<>> ELSE Bind(Split(s, 58), LAMBDA f : GroupsOf(f))

\* The position of the first "::" in s, 0 when there is none.
EllipsisAt(s) ==
    IF \E i \in 1..(Len(s) - 1) : s[i] = 58 /\ s[i + 1] = 58
    THEN CHOOSE i \in 1..(Len(s) - 1) :
            /\ s[i] = 58 /\ s[i + 1] = 58
            /\ \A j \in 1..(i - 1) : ~(s[j] = 58 /\ s[j + 1] = 58)
    ELSE 0

\* The eight groups s writes as an IPv6 address, <<>> when it is not one: eight
\* groups, or fewer with one "::" that stands for the zero groups left out.
parseIPv6(s) ==
    Bind(EllipsisAt(s), LAMBDA e :
        IF e = 0
        THEN Bind(Groups(s), LAMBDA all : IF all = Bad \/ Len(all) # 8 THEN <<>> ELSE all)
        ELSE Bind(Groups(SubSeq(s, 1, e - 1)), LAMBDA left :
             Bind(Groups(SubSeq(s, e + 2, Len(s))), LAMBDA right :
                 IF left = Bad \/ right = Bad \/ IndexByte(SubSeq(s, 1, e - 1), 46) # 0
                    \/ Len(left) + Len(right) > 7
                 THEN <<>>
                 ELSE left \o [i \in 1..(8 - Len(left) - Len(right)) |-> 0] \o right)))

\* net.ParseIP: the address as 16 bytes (an IPv4 address with the
\* IPv4-in-IPv6 prefix), <<>> for nil.  The first '.' or ':' decides the form.
ParseIP(s) ==
    LET dot == IndexByte(s, 46)
        colon == IndexByte(s, 58)
    IN  IF colon # 0 /\ (dot = 0 \/ colon < dot) THEN parseIPv6(s)
        ELSE Bind(parseIPv4(s), LAMBDA v :
                 IF v = <<>> THEN <<>>
                 ELSE <<0, 0, 0, 0, 0, 65535, v[1] * 256 + v[2], v[3] * 256 + v[4]>>)

RECURSIVE Pow2(_)
Pow2(n) == IF n = 0 THEN 1 ELSE 2 * Pow2(n - 1)

\* net.IP.Mask for an address of units of unit bits: the first n bits kept.
Mask(ip, unit, n) ==
    [i \in 1..Len(ip) |->
        LET k == n - unit * (i - 1)
            keep == IF k < 0 THEN 0 ELSE IF k > unit THEN unit ELSE k
        IN  ip[i] - (ip[i] % Pow2(unit - keep))]

\* net.ParseCIDR: the network of "address/prefix", its address masked; an
\* address in dotted form gives a 4-byte address and mask, any other a 16-byte
\* address and mask.
ParseCIDR(s) ==
    Bind(IndexByte(s, 47), LAMBDA i :
    Bind(SubSeq(s, 1, i - 1), LAMBDA addr :
    Bind(dtoi(SubSeq(s, i + 1, Len(s))), LAMBDA n :
    Bind(IndexByte(addr, 58) = 0, LAMBDA is4 :
    Bind(IF is4 THEN parseIPv4(addr) ELSE parseIPv6(addr), LAMBDA ip :
        LET size == IF is4 THEN 32 ELSE 128
        IN  IF i = 0 \/ ip = <<>> \/ n = -1 \/ n > size
            THEN [err |-> TRUE, ipnet |-> [ip |-> <<>>, bits |-> 0, size |-> 0]]
            ELSE [err |-> FALSE,
                  ipnet |-> [ip |-> Mask(ip, IF is4 THEN 8 ELSE 16, n),
                             bits |-> n, size |-> size]])))))

\* A plausible slip: the address of a CIDR is kept as written, host bits and all.
parseIPOrCIDR_unmasked(s) ==
    Bind(TrimSpace(s), LAMBDA t :
    Bind(IndexByte(t, 47), LAMBDA i :
        IF i # 0
        THEN Bind(ParseCIDR(t), LAMBDA cidr :
             Bind(SubSeq(t, 1, i - 1), LAMBDA addr :
                 IF cidr.err THEN [err |-> "invalid CIDR", ipnet |-> cidr.ipnet]
                 ELSE [err |-> "nil",
                       ipnet |-> [cidr.ipnet EXCEPT
                                     !.ip = IF IndexByte(addr, 58) = 0
                                            THEN parseIPv4(addr) ELSE parseIPv6(addr)]]))
        ELSE Bind(ParseIP(t), LAMBDA ip :
                 LET size == IF To4(ip) # <<>> THEN 32 ELSE 128
                 IN  IF ip = <<>>
                     THEN [err |-> "invalid IP address",
                           ipnet |-> [ip |-> <<>>, bits |-> 0, size |-> 0]]
                     ELSE [err |-> "nil", ipnet |-> [ip |-> ip, bits |-> size, size |-> size]])))

\* parseIPOrCIDR: the text is trimmed; with a '/' it is parsed as a CIDR,
\* otherwise as an address, which gets a mask of 32 ones when To4 gives an
\* address and of 128 ones otherwise.
parseIPOrCIDR(s) ==
    Bind(TrimSpace(s), LAMBDA t :
        IF IndexByte(t, 47) # 0
        THEN Bind(ParseCIDR(t), LAMBDA cidr :
                 IF cidr.err THEN [err |-> "invalid CIDR", ipnet |-> cidr.ipnet]
                 ELSE [err |-> "nil", ipnet |-> cidr.ipnet])
        ELSE Bind(ParseIP(t), LAMBDA ip :
                 LET size == IF To4(ip) # <<>> THEN 32 ELSE 128
                 IN  IF ip = <<>>
                     THEN [err |-> "invalid IP address",
                           ipnet |-> [ip |-> <<>>, bits |-> 0, size |-> 0]]
                     ELSE [err |-> "nil", ipnet |-> [ip |-> ip, bits |-> size, size |-> size]]))

\* -------------------------------------------------------------- normalizer
\* ToStrings: the canonical string of each entry, order and length kept.
ToStrings(networks) == [i \in 1..Len(networks) |-> String(networks[i])]

\* The zero net.IPNet.
ZeroNet == [ip |-> <<>>, bits |-> 0, size |-> 0]

\* The entries of networks (duplicates kept) in ascending order of String().
RECURSIVE SortNets(_)
SortNets(networks) ==
    IF networks = <<>> THEN <<>>
    ELSE Bind(ToStrings(networks), LAMBDA key :
             Bind(CHOOSE k \in 1..Len(networks) :
                      \A j \in 1..Len(networks) :
                         \/ StrLess(key[k], key[j])
                         \/ (key[k] = key[j] /\ k <= j),
                  LAMBDA i :
                      <<networks[i]>>
                      \o SortNets([j \in 1..(Len(networks) - 1) |->
                                     IF j < i THEN networks[j] ELSE networks[j + 1]])))

\* A plausible slip in Normalize: the early return is taken for every input.
Normalize_asGiven(networks) == networks

\* A plausible slip in Normalize: the entries are sorted and not put through
\* the map.
Normalize_keepAll(networks) == SortNets(networks)

\* The entries of networks whose String() no earlier entry has, in order.
RECURSIVE FirstSeen(_, _, _)
FirstSeen(networks, i, acc) ==
    IF i > Len(networks) THEN acc
    ELSE FirstSeen(networks, i + 1,
                   IF \A j \in 1..(i - 1) : String(networks[j]) # String(networks[i])
                   THEN Append(acc, networks[i]) ELSE acc)

\* A plausible slip in Normalize: the sort is left out and the entries come
\* out in the order the map gives them (here: the order they were first seen).
Normalize_unsorted(networks) == FirstSeen(networks, 1, <<>>)

\* A plausible slip in Normalize: result is made with a length instead of a
\* capacity, so the appended entries follow len(seen) zero entries.
Normalize_lenNotCap(networks) ==
    IF Len(networks) = 0 THEN networks
    ELSE LET keys == {String(networks[i]) : i \in 1..Len(networks)}
             kept == Normalize_unsorted(networks)
         IN  SortNets([i \in 1..Cardinality(keys) |-> ZeroNet] \o kept)

\* The address of an entry in its shortest form, and its prefix length in
\* that form (as String() prints them).
ShortIP(n) == IF To4(n.ip) # <<>> THEN To4(n.ip) ELSE n.ip
ShortBits(n) ==
    IF To4(n.ip) # <<>> /\ n.size = 128 THEN (IF n.bits >= 96 THEN n.bits - 96 ELSE 0)
    ELSE n.bits

\* b is a network inside the network a, and not a itself.
Inside(a, b) ==
    /\ Len(ShortIP(a)) = Len(ShortIP(b))
    /\ ShortBits(a) < ShortBits(b)
    /\ \A k \in 1..Len(ShortIP(a)) :
          LET keep == IF 8 * k <= ShortBits(a) THEN 8
                      ELSE IF 8 * (k - 1) >= ShortBits(a) THEN 0
                      ELSE ShortBits(a) - 8 * (k - 1)
          IN  ShortIP(a)[k] \div (2 ^ (8 - keep)) = ShortIP(b)[k] \div (2 ^ (8 - keep))

\* A plausible variant of Normalize: an entry inside another entry is merged
\* into that one ("merge overlapping ranges").
Normalize_merged(networks) ==
    SelectSeq(Normalize_unsorted(SortNets(networks)),
              LAMBDA b : \A i \in 1..Len(networks) : ~Inside(networks[i], b))

\* Normalize: empty input is returned as is; otherwise the entries are put in
\* a map keyed by String() (a later entry replaces an earlier one with the same
\* key), collected, and sorted by String().  The map's iteration order does not
\* show in the result: the keys are distinct, so the sort fixes the order.
Normalize(networks) ==
    IF Len(networks) = 0 THEN networks
    ELSE Bind(ToStrings(networks), LAMBDA key :
             LET keys == {key[i] : i \in 1..Len(networks)}
                 seen == [k \in keys |->
                            LET lastAt == CHOOSE i \in 1..Len(networks) :
                                           /\ key[i] = k
                                           /\ \A j \in (i + 1)..Len(networks) : key[j] # k
                            IN  networks[lastAt]]
                 order == SortKeys(keys)
             IN  [i \in 1..Len(order) |-> seen[order[i]]])

\* Normalize step by step, the range over the map taken in the order p of its
\* keys (Go leaves the order open): the map is filled, its values are appended
\* in that order, and sort.Slice puts them in the order of String().
NormalizeIn(networks, p) ==
    IF Len(networks) = 0 THEN networks
    ELSE Bind(ToStrings(networks), LAMBDA key :
             LET keys == SortKeys({key[i] : i \in 1..Len(networks)})
                 seen == [k \in {keys[i] : i \in 1..Len(keys)} |->
                            networks[CHOOSE i \in 1..Len(networks) :
                                        /\ key[i] = k
                                        /\ \A j \in (i + 1)..Len(networks) : key[j] # k]]
             IN  SortNets([i \in 1..Len(keys) |-> seen[keys[p[i]]]]))

\* Merge's second loop: merged = append(merged, list...) for each list from
\* the i-th on.
RECURSIVE appendLists(_, _, _)
appendLists(merged, lists, i) ==
    IF i > Len(lists) THEN merged
    ELSE appendLists(merged \o lists[i], lists, i + 1)

\* A plausible slip in Merge: each list is normalized and the results are
\* appended.
RECURSIVE Merge_eachList(_)
Merge_eachList(lists) ==
    IF lists = <<>> THEN <<>>
    ELSE Normalize(Head(lists)) \o Merge_eachList(Tail(lists))

\* Merge: the lists are appended to an empty slice, in the order given, and
\* the slice is normalized.
Merge(lists) == Normalize(appendLists(<<>>, lists, 1))

\* ------------------------------------------------------------- fingerprint
RECURSIVE JoinLines(_)
JoinLines(strs) ==
    IF strs = <<>> THEN <<>>
    ELSE Head(strs) \o <<10>> \o JoinLines(Tail(strs))

\* hex(sha256(text)): a digest is 64 hex characters, never the empty string,
\* and SHA-256 is taken to be collision-free, so the digest is represented by
\* the text it was computed from.
Sha256Hex(text) == <<"sha256", text>>

\* The empty string, the value New gives lastHash.
EmptyHash == <<>>

\* A plausible variant of calculateHash: the empty list gets the empty string,
\* the value lastHash starts with.
calculateHash_emptyAsInitial(networks) ==
    IF networks = <<>> THEN EmptyHash
    ELSE Sha256Hex(JoinLines(SortStrings(ToStrings(networks))))

\* calculateHash: ToStrings, sort.Strings, each string followed by "\n", SHA-256.
calculateHash(networks) == Sha256Hex(JoinLines(SortStrings(ToStrings(networks))))

\* ----------------------------------------------------------- configuration
\* The address-group the program keeps in sync (unifi.groupName, its default).
GroupName == "uts-block-list"

\* A FeedConfig, with the fields the sync cycle reads.
FeedConfig(name, url, parser, enabled) ==
    [name |-> name, url |-> url, parser |-> parser, enabled |-> enabled]

\* FeedsList.EnabledCount: the number of feeds whose enabled flag is set.
RECURSIVE EnabledCount(_)
EnabledCount(f) ==
    IF f = <<>> THEN 0
    ELSE (IF Head(f).enabled THEN 1 ELSE 0) + EnabledCount(Tail(f))

\* A plausible slip in GetEnabled: the enabled test is lost, every feed is returned.
GetEnabled_all(f) == f

\* FeedsList.GetEnabled: the enabled feeds, appended in list order.
GetEnabled(f) == SelectSeq(f, LAMBDA feed : feed.enabled)

\* Config.Validate, the part about feeds: at least one feed, at least one
\* enabled, every enabled feed with a name, a url and a parser.
ValidFeeds(f) ==
    /\ Len(f) > 0
    /\ \A i \in 1..Len(f) :
          f[i].enabled => (f[i].name # "" /\ f[i].url # "" /\ f[i].parser # "")
    /\ EnabledCount(f) > 0

\* ---------------------------------------------------------- parser registry
\* A parser is known by its Name() and by which implementation it is.
NetsetParser == [name |-> "netset", impl |-> "NetsetParser"]
PlainParser == [name |-> "plain", impl |-> "PlainParser"]

\* No parser, the nil that Get returns with an error.
NoParser == [name |-> "", impl |-> "nil"]

\* The registry is a map from names to parsers, empty when the package is
\* loaded.
EmptyRegistry == [n \in {} |-> NoParser]

\* A plausible slip in Register: a name that is taken keeps its parser.
Register_keepFirst(reg, p) ==
    [n \in DOMAIN reg \cup {p.name} |-> IF n \in DOMAIN reg THEN reg[n] ELSE p]

\* parser.Register: registry[p.Name()] = p.
Register(reg, p) ==
    [n \in DOMAIN reg \cup {p.name} |-> IF n = p.name THEN p ELSE reg[n]]

\* The registry after start-up: the two init functions have registered
\* the netset and the plain parser.
registry == Register(Register(EmptyRegistry, NetsetParser), PlainParser)

\* parser.Get: the parser registered under name, or an unknown-parser error
\* and no parser.
Get(reg, name) ==
    IF name \in DOMAIN reg THEN [err |-> FALSE, parser |-> reg[name]]
    ELSE [err |-> TRUE, parser |-> NoParser]

\* parser.List: the names of the map, appended in the order the range over the
\* map gives them, which Go leaves open: every order is a possible result.
List(reg) ==
    {names \in [1..Cardinality(DOMAIN reg) -> DOMAIN reg] :
        \A n \in DOMAIN reg : \E i \in 1..Cardinality(DOMAIN reg) : names[i] = n}

\* --------------------------------------------------------------- the feeds
\* Entries as parseIPOrCIDR returns them.
Net(a, b, c, d, bits) == [ip |-> <<a, b, c, d>>, bits |-> bits, size |-> 32]
N1 == Net(10, 0, 0, 0, 8)
N2 == Net(192, 168, 1, 1, 32)
N3 == Net(9, 9, 9, 9, 32)
N4 == Net(203, 0, 113, 5, 32)

\* A line of a body is its text, or LongLine for a line of more bytes than
\* bufio.Scanner takes as one token (bufio.MaxScanTokenSize, 64 KiB).
LongLine == <<-2>>

\* bufio.ScanLines over a text: the lines between the newlines (10), a
\* carriage return (13) at a line's end dropped, and no empty last line after a
\* final newline.
ScanLines(text) ==
    Bind(Split(text, 10), LAMBDA parts :
        LET n == IF parts[Len(parts)] = <<>> THEN Len(parts) - 1 ELSE Len(parts)
        IN  [i \in 1..n |->
                IF parts[i] # <<>> /\ parts[i][Len(parts[i])] = 13
                THEN SubSeq(parts[i], 1, Len(parts[i]) - 1) ELSE parts[i]])

\* strings.HasPrefix.
HasPrefix(s, prefix) == Len(s) >= Len(prefix) /\ SubSeq(s, 1, Len(prefix)) = prefix

\* The loop of parseBody over the scanner's lines: a line is trimmed, skipped
\* when it is empty or begins with one of the comment markers, skipped when
\* parseIPOrCIDR fails, and appended otherwise.  The scanner stops at a line it
\* cannot hold; scanner.Err() is then not nil.
RECURSIVE scanLoop(_, _, _, _)
scanLoop(markers, lines, i, networks) ==
    IF i > Len(lines) THEN [scanErr |-> FALSE, networks |-> networks]
    ELSE IF lines[i] = LongLine THEN [scanErr |-> TRUE, networks |-> networks]
    ELSE Bind(TrimSpace(lines[i]), LAMBDA line :
             IF line = <<>> \/ \E m \in markers : HasPrefix(line, m)
             THEN scanLoop(markers, lines, i + 1, networks)
             ELSE Bind(parseIPOrCIDR(line), LAMBDA r :
                      scanLoop(markers, lines, i + 1,
                               IF r.err # "nil" THEN networks
                               ELSE Append(networks, r.ipnet))))

\* A plausible slip in parseBody: the first line that does not parse ends the
\* loop (break where the code has continue).
RECURSIVE scanLoop_break(_, _, _, _)
scanLoop_break(markers, lines, i, networks) ==
    IF i > Len(lines) THEN [scanErr |-> FALSE, networks |-> networks]
    ELSE IF lines[i] = LongLine THEN [scanErr |-> TRUE, networks |-> networks]
    ELSE Bind(TrimSpace(lines[i]), LAMBDA line :
             IF line = <<>> \/ \E m \in markers : HasPrefix(line, m)
             THEN scanLoop_break(markers, lines, i + 1, networks)
             ELSE Bind(parseIPOrCIDR(line), LAMBDA r :
                      IF r.err # "nil" THEN [scanErr |-> FALSE, networks |-> networks]
                      ELSE scanLoop_break(markers, lines, i + 1,
                                          Append(networks, r.ipnet))))

\* How parseBody ends: an error of the scanner, then no entry at all, is an
\* error; otherwise the entries are returned.
bodyResult(scan) ==
    IF scan.scanErr THEN [err |-> "reading", networks |-> <<>>]
    ELSE IF Len(scan.networks) = 0 THEN [err |-> "novalid", networks |-> <<>>]
    ELSE [err |-> "nil", networks |-> scan.networks]

\* The comment markers: '#' for the netset parser; '#', ';' and "//" for the
\* plain parser.
NetsetMarkers == {<<35>>}
PlainMarkers == {<<35>>, <<59>>, <<47, 47>>}

\* NetsetParser.parseBody and PlainParser.parseBody.
NetsetParseBody(lines) == bodyResult(scanLoop(NetsetMarkers, lines, 1, <<>>))

PlainParseBody(lines) == bodyResult(scanLoop(PlainMarkers, lines, 1, <<>>))

\* What a feed's server does with one GET: the request fails (transport error,
\* cancelled context or timeout), it answers with a non-success status, or it
\* answers 200 with a body.  nets are the entries the server means to serve
\* and lines the body it writes for them: a comment, a line for each entry,
\* and an empty line.
FetchErr == [kind |-> "fetcherr", status |-> 0, nets |-> <<>>, lines |-> <<>>]
BadStatus == [kind |-> "status", status |-> 404, nets |-> <<>>, lines |-> <<>>]
Body(nets) ==
    [kind |-> "body", status |-> 200, nets |-> nets,
     lines |-> <<Text(<<"#", " ", "a">>)>> \o ToStrings(nets) \o << <<>> >>]

\* The responses each feed url is explored with.
Responses(url) ==
    CASE url = "u1" -> {FetchErr, Body(<<N2, N1, N2>>)}
      [] url = "u2" -> {BadStatus, Body(<<N3, N1>>)}
      [] OTHER -> {Body(<<N4>>)}

\* A plausible slip in Parse: the status is not looked at.
Parse_anyStatus(p, resp) ==
    IF resp.kind = "fetcherr" THEN [err |-> "fetch", networks |-> <<>>]
    ELSE IF p.impl = "NetsetParser" THEN NetsetParseBody(resp.lines)
    ELSE PlainParseBody(resp.lines)

\* Parse of the parser p (the two are alike but for parseBody): an error of
\* client.Do is a fetch error, a status other than 200 an unexpected-status
\* error; otherwise what parseBody returns for the body.
Parse(p, resp) ==
    IF resp.kind = "fetcherr" THEN [err |-> "fetch", networks |-> <<>>]
    ELSE IF resp.status # 200 THEN [err |-> "status", networks |-> <<>>]
    ELSE IF p.impl = "NetsetParser" THEN NetsetParseBody(resp.lines)
    ELSE PlainParseBody(resp.lines)

\* One iteration of fetchAllFeeds' loop for feedConfig: look the parser up and
\* skip the feed when it is unknown; Parse and skip the feed when that fails;
\* otherwise append its entries.  lookups and parsed log the calls made.
feedStep(acc, feedConfig, world) ==
    Bind(Get(registry, feedConfig.parser), LAMBDA p :
        LET looked == [acc EXCEPT !.lookups = Append(@, feedConfig.name)]
            called == [looked EXCEPT !.parsed = Append(@, feedConfig.name)]
        IN  IF p.err THEN looked
            ELSE Bind(Parse(p.parser, world[feedConfig.url]), LAMBDA r :
                     IF r.err # "nil" THEN called
                     ELSE [called EXCEPT !.all = @ \o r.networks]))

RECURSIVE fetchLoop(_, _, _)
fetchLoop(enabledFeeds, world, acc) ==
    IF enabledFeeds = <<>> THEN acc
    ELSE fetchLoop(Tail(enabledFeeds), world, feedStep(acc, Head(enabledFeeds), world))

\* A plausible slip in fetchAllFeeds: a failed feed ends the loop (return
\* where the code has continue).
RECURSIVE fetchLoop_return(_, _, _)
fetchLoop_return(enabledFeeds, world, acc) ==
    IF enabledFeeds = <<>> THEN acc
    ELSE LET next == feedStep(acc, Head(enabledFeeds), world)
         IN  IF next.all = acc.all THEN next
             ELSE fetchLoop_return(Tail(enabledFeeds), world, next)

fetchAllFeeds_return(feedsList, world) ==
    fetchLoop_return(GetEnabled(feedsList), world,
                     [lookups |-> <<>>, parsed |-> <<>>, all |-> <<>>])

\* fetchAllFeeds: the loop over GetEnabled(); it never returns an error.
fetchAllFeeds(feedsList, world) ==
    fetchLoop(GetEnabled(feedsList), world,
              [lookups |-> <<>>, parsed |-> <<>>, all |-> <<>>])

\* ------------------------------------------------------------ UniFi client
\* What the controller, or the network on the way to it, does with one request:
\*   "ok"         it carries the request out and answers with a success
\*                status and the body the client expects;
\*   "transport"  the request fails before the controller sees it (connection
\*                error, cancelled context);
\*   "lost"       the controller carries the request out and the answer is
\*                lost (the client's 30 s timeout passes);
\*   "status"     the controller refuses with a non-success status;
\*   "decode"     a success status with a body that is not the expected JSON;
\*   "empty"      a success status with an empty "data" list;
\*   "canceled"   the context of the request is cancelled: the http client
\*                gives the request up and returns the context's error.
LoginOutcomes == {"ok", "transport", "status"}
GetOutcomes == {"ok", "transport", "status", "decode"}
MutOutcomes == {"ok", "transport", "lost", "status", "decode", "empty"}

\* Client.Login: loggedIn becomes true on a 200 answer, and is left as it was
\* on any failure.
Login(c, out) ==
    IF out = "ok" THEN [err |-> "nil", loggedIn |-> TRUE]
    ELSE [err |-> "login", loggedIn |-> c.loggedIn]

\* A plausible variant: every request logs in again first.
ensureLoggedIn_always(c, out) ==
    [err |-> Login(c, out).err, loggedIn |-> Login(c, out).loggedIn, logins |-> 1]

\* Client.ensureLoggedIn: Login only when loggedIn is false.  logins counts
\* the Login calls made.
ensureLoggedIn(c, out) ==
    IF c.loggedIn THEN [err |-> "nil", loggedIn |-> c.loggedIn, logins |-> 0]
    ELSE [err |-> Login(c, out).err, loggedIn |-> Login(c, out).loggedIn, logins |-> 1]

\* The groups named name, in the order the controller lists them.
GroupsNamed(rem, name) == SelectSeq(rem, LAMBDA g : g.name = name)

\* Client.GetFirewallGroup: the first listed group with that name; every
\* failure, "group not found" included, is returned as an error.
GetFirewallGroup(c, rem, name, login, out) ==
    LET l == ensureLoggedIn(c, login)
        found == GroupsNamed(rem, name)
    IN  IF l.err # "nil" THEN [err |-> l.err, group |-> <<>>, loggedIn |-> l.loggedIn, logins |-> l.logins]
        ELSE IF out \in {"transport", "canceled"} THEN [err |-> out, group |-> <<>>, loggedIn |-> l.loggedIn, logins |-> l.logins]
        ELSE IF out = "status" THEN [err |-> "status", group |-> <<>>, loggedIn |-> l.loggedIn, logins |-> l.logins]
        ELSE IF out = "decode" THEN [err |-> "decode", group |-> <<>>, loggedIn |-> l.loggedIn, logins |-> l.logins]
        ELSE IF Len(found) = 0 THEN [err |-> "notfound", group |-> <<>>, loggedIn |-> l.loggedIn, logins |-> l.logins]
        ELSE [err |-> "nil", group |-> <<Head(found)>>, loggedIn |-> l.loggedIn, logins |-> l.logins]

\* The id the controller gives a new group.
RECURSIVE MaxId(_)
MaxId(rem) == IF rem = <<>> THEN 0
              ELSE LET m == MaxId(Tail(rem)) IN IF Head(rem).id > m THEN Head(rem).id ELSE m

\* The controller carries a create out unless a group of that name exists:
\* it keeps group names unique and refuses a second one with an error status.
CreateApplied(rem, name, out) ==
    out \in {"ok", "lost", "decode", "empty"} /\ Len(GroupsNamed(rem, name)) = 0

\* Client.CreateFirewallGroup: POST of an address-group with these members.
\* A success status whose body cannot be decoded, or whose data list is
\* empty, is returned as an error.
CreateFirewallGroup(c, rem, name, members, login, out) ==
    LET l == ensureLoggedIn(c, login)
        group == [id |-> MaxId(rem) + 1, name |-> name, type |-> "address-group", members |-> members]
        after == IF CreateApplied(rem, name, out) THEN Append(rem, group) ELSE rem
        err == IF out = "canceled" THEN "canceled"
               ELSE IF out \in {"transport", "lost"} THEN "transport"
               ELSE IF ~CreateApplied(rem, name, out) THEN "status"
               ELSE IF out = "decode" THEN "decode"
               ELSE IF out = "empty" THEN "empty"
               ELSE "nil"
    IN  IF l.err # "nil" THEN [err |-> l.err, remote |-> rem, loggedIn |-> l.loggedIn, logins |-> l.logins]
        ELSE [err |-> err, remote |-> after, loggedIn |-> l.loggedIn, logins |-> l.logins]

\* The controller carries an update out when the group with that id exists.
UpdateApplied(rem, groupID, out) ==
    out \in {"ok", "lost", "decode", "empty"} /\ \E i \in 1..Len(rem) : rem[i].id = groupID

\* Client.UpdateFirewallGroup: PUT of group_members to the group with that id;
\* the answer's body is not read.
UpdateFirewallGroup(c, rem, groupID, members, login, out) ==
    LET l == ensureLoggedIn(c, login)
        after == IF UpdateApplied(rem, groupID, out)
                 THEN [i \in 1..Len(rem) |->
                         IF rem[i].id = groupID THEN [rem[i] EXCEPT !.members = members] ELSE rem[i]]
                 ELSE rem
        err == IF out = "canceled" THEN "canceled"
               ELSE IF out \in {"transport", "lost"} THEN "transport"
               ELSE IF ~UpdateApplied(rem, groupID, out) THEN "status"
               ELSE "nil"
    IN  IF l.err # "nil" THEN [err |-> l.err, remote |-> rem, loggedIn |-> l.loggedIn, logins |-> l.logins]
        ELSE [err |-> err, remote |-> after, loggedIn |-> l.loggedIn, logins |-> l.logins]

\* ----------------------------------------------------------- health server
\* NewHealthServer: healthy, not ready, counters at zero, no lastSync yet, the
\* http server built and not yet listening.
NewHealthServer ==
    [healthy |-> TRUE, ready |-> FALSE, syncCount |-> 0, errorCount |-> 0, lastSync |-> FALSE,
     serving |-> FALSE]

\* HealthServer.Start: the http server listens from now on.
Start(hs) == [hs EXCEPT !.serving = TRUE]

\* A plausible slip: main returns without stopping the server.
Stop_leaveRunning(hs) == hs

\* HealthServer.Stop: the http server is shut down.
Stop(hs) == [hs EXCEPT !.serving = FALSE]

\* A plausible slip: RecordSync counts the sync and leaves ready alone.
RecordSync_notReady(hs) == [hs EXCEPT !.lastSync = TRUE, !.syncCount = @ + 1]

\* HealthServer.RecordSync: lastSync is stored, syncCount incremented, ready set.
RecordSync(hs) == [hs EXCEPT !.lastSync = TRUE, !.syncCount = @ + 1, !.ready = TRUE]

\* A plausible variant: a failed cycle marks the service unhealthy.
RecordError_unhealthy(hs) == [hs EXCEPT !.errorCount = @ + 1, !.healthy = FALSE]

\* A plausible slip: RecordError does not count.
RecordError_skip(hs) == hs

\* HealthServer.RecordError: errorCount incremented.
RecordError(hs) == [hs EXCEPT !.errorCount = @ + 1]

\* HealthServer.handleHealth: the status code of the answer to a request with
\* that method.
handleHealth(hs, method) ==
    IF method # "GET" THEN 405
    ELSE IF ~hs.healthy THEN 503
    ELSE 200

\* HealthServer.handleReady: the status code of the answer to a request with
\* that method.
handleReady(hs, method) ==
    IF method # "GET" THEN 405
    ELSE IF ~hs.ready THEN 503
    ELSE 200

\* ------------------------------------------------------------------ Syncer
\* New: no fingerprint yet, no health recorder.
New == [lastHash |-> EmptyHash, healthRecorder |-> FALSE]

\* Syncer.SetHealthRecorder.
SetHealthRecorder(s, hr) == [s EXCEPT !.healthRecorder = hr]

\* One call of the remote client as Run made it: the operation, the group name
\* or id it was given, the members it was given, and the error it returned.
Call(op, arg, members, err) == [op |-> op, arg |-> arg, members |-> members, err |-> err]

\* A plausible slip: the comparison with lastHash is lost and every cycle pushes.
noChange_never(s, currentHash) == FALSE

\* Run's check whether an update is needed.
noChange(s, currentHash) == currentHash = s.lastHash

\* Run's reconcile stage: GetFirewallGroup; on any error of it
\* CreateFirewallGroup, otherwise UpdateFirewallGroup of the group found.
reconcile(c, rem, members, in) ==
    LET g == GetFirewallGroup(c, rem, GroupName, in.login[1], in.get)
        c2 == [loggedIn |-> g.loggedIn]
        getCall == Call("getGroup", GroupName, <<>>, g.err)
    IN  IF g.err # "nil"
        THEN LET cr == CreateFirewallGroup(c2, rem, GroupName, members, in.login[2], in.mut)
             IN  [err |-> IF cr.err # "nil" THEN "create" ELSE "nil",
                  calls |-> <<getCall, Call("createGroup", GroupName, members, cr.err)>>,
                  remote |-> cr.remote, loggedIn |-> cr.loggedIn, logins |-> g.logins + cr.logins]
        ELSE LET up == UpdateFirewallGroup(c2, rem, g.group[1].id, members, in.login[2], in.mut)
             IN  [err |-> IF up.err # "nil" THEN "update" ELSE "nil",
                  calls |-> <<getCall, Call("updateGroup", g.group[1].id, members, up.err)>>,
                  remote |-> up.remote, loggedIn |-> up.loggedIn, logins |-> g.logins + up.logins]

\* A plausible slip: lastHash is assigned before the reconcile stage, so a
\* failed reconcile leaves the new fingerprint behind.
finish_hashFirst(s, hs, currentHash, err) ==
    IF err # "nil" THEN [lastHash |-> currentHash, health |-> hs]
    ELSE [lastHash |-> currentHash,
          health |-> IF s.healthRecorder THEN RecordSync(hs) ELSE hs]

\* A plausible slip: the assignment of lastHash sits inside the recorder's
\* nil check.
finish_inNilCheck(s, hs, currentHash, err) ==
    IF err # "nil" THEN [lastHash |-> s.lastHash, health |-> hs]
    ELSE IF s.healthRecorder THEN [lastHash |-> currentHash, health |-> RecordSync(hs)]
    ELSE [lastHash |-> s.lastHash, health |-> hs]

\* A plausible slip: a failed reconcile clears lastHash.
finish_clearOnError(s, hs, currentHash, err) ==
    IF err # "nil" THEN [lastHash |-> EmptyHash, health |-> hs]
    ELSE [lastHash |-> currentHash,
          health |-> IF s.healthRecorder THEN RecordSync(hs) ELSE hs]

\* How Run ends after the reconcile stage: an error returns at once; otherwise
\* lastHash is updated and RecordSync called when a recorder is set.
finish(s, hs, currentHash, err) ==
    IF err # "nil" THEN [lastHash |-> s.lastHash, health |-> hs]
    ELSE [lastHash |-> currentHash,
          health |-> IF s.healthRecorder THEN RecordSync(hs) ELSE hs]

\* ------------------------------------------------------------- environment
\* The configurations explored: each passes Validate.  f3 names a parser that
\* no init function registers in the first, and is disabled in the second.
Configs ==
    { << FeedConfig("f1", "u1", "plain", TRUE),
         FeedConfig("f3", "u3", "greynoise", TRUE),
         FeedConfig("f2", "u2", "netset", TRUE) >>,
      << FeedConfig("f3", "u3", "plain", FALSE),
         FeedConfig("f1", "u1", "plain", TRUE),
         FeedConfig("f2", "u2", "netset", TRUE) >> }

Urls == {"u1", "u2", "u3"}

\* What the feed servers hold during one cycle.
Worlds == {w \in [Urls -> UNION {Responses(u) : u \in Urls}] : \A u \in Urls : w[u] \in Responses(u)}

\* The behaviour of the feeds and of the controller during one Run.
Inputs(c) ==
    [world : Worlds,
     login : IF c.loggedIn THEN {<<"ok", "ok">>} ELSE LoginOutcomes \X LoginOutcomes,
     get : GetOutcomes, mut : MutOutcomes]

\* The feeds' answers before any Run has asked them, and when the context of
\* the fetches is cancelled: every fetch returns an error.
NoWorld == [u \in Urls |-> FetchErr]

\* The feeds' answers when the context is cancelled after the first feed of
\* the configuration (the one at u1) has answered: every later fetch returns an
\* error.
CutWorld(world) == [u \in Urls |-> IF u = "u1" THEN world[u] ELSE FetchErr]

\* Every state of the feeds a Run can meet.
RunWorlds == Worlds \cup {NoWorld} \cup {CutWorld(w) : w \in Worlds}

\* Where a shutdown signal can arrive with respect to one Run: not at all,
\* before the Run began, as its fetch stage begins, in the fetch stage after
\* the first feed has answered, while GetFirewallGroup is in flight, while the
\* create or update is in flight, or after its last call.
SignalPoints(sig) ==
    IF sig = "none" THEN {"never"}
    ELSE IF sig = "pending" THEN {"before"}
    ELSE {"fetch", "midfetch", "get", "mut", "done"}

\* The context main passes to Run: the signal context for the initial sync,
\* context.Background() for a scheduled sync.
runCtx(pc_) == IF pc_ = "initialRun" THEN "signal" ELSE "background"

\* A plausible variant: the controller calls are made with a context of their
\* own, so a cancellation reaches only the fetches.
Cancelled_fetchesOnly(in, ctx, at) ==
    IF ctx = "background" \/ at \in {"never", "done"} THEN in
    ELSE IF at \in {"before", "fetch"} THEN [in EXCEPT !.world = NoWorld]
    ELSE IF at = "midfetch" THEN [in EXCEPT !.world = CutWorld(in.world)]
    ELSE IF at = "get" THEN [in EXCEPT !.get = "canceled", !.mut = "canceled"]
    ELSE [in EXCEPT !.mut = "canceled"]

\* What a Run sees of the feeds and the controller when the signal arrives at
\* point at: with the signal context every request from that point on is
\* given up; context.Background() is never cancelled.
Cancelled(in, ctx, at) ==
    IF ctx = "background" \/ at \in {"never", "done"} THEN in
    ELSE IF at \in {"before", "fetch"}
         THEN [in EXCEPT !.world = NoWorld, !.get = "canceled", !.mut = "canceled"]
    ELSE IF at = "midfetch"
         THEN [in EXCEPT !.world = CutWorld(in.world), !.get = "canceled", !.mut = "canceled"]
    ELSE IF at = "get" THEN [in EXCEPT !.get = "canceled", !.mut = "canceled"]
    ELSE [in EXCEPT !.mut = "canceled"]

\* Run's fetch, normalize and fingerprint stages, which read only the
\* configuration and what the feeds answer: the calls fetchAllFeeds makes, its
\* aggregate, the normalized list, its fingerprint, and the members for the
\* controller.
stages(feedsList, world) ==
    LET f == fetchAllFeeds(feedsList, world)
        normalized == Normalize(f.all)
    IN  [lookups |-> f.lookups, parsed |-> f.parsed, all |-> f.all, normalized |-> normalized,
         currentHash |-> calculateHash(normalized), members |-> ToStrings(normalized)]

\* stages, computed once for each configuration and each state of the feeds
\* (@@ makes the table an explicit one).
Stages == [f \in Configs, w \in RunWorlds |-> stages(f, w)] @@ <<>>

\* A variant of Run that looks at the controller before it skips: the cycle
\* is skipped only when the group is there with the members of this cycle.
Run_verifying(s, c, rem, hs, feedsList, in) ==
    Bind(Stages[feedsList, in.world], LAMBDA st :
        IF /\ noChange(s, st.currentHash)
           /\ \E i \in 1..Len(rem) : rem[i].name = GroupName /\ rem[i].members = st.members
        THEN [err |-> "nil", lastHash |-> s.lastHash, health |-> hs, calls |-> <<>>,
              remote |-> rem, loggedIn |-> c.loggedIn, logins |-> 0,
              lookups |-> st.lookups, parsed |-> st.parsed, all |-> st.all,
              normalized |-> st.normalized]
        ELSE LET rec == reconcile(c, rem, st.members, in)
                 fin == finish(s, hs, st.currentHash, rec.err)
             IN  [err |-> rec.err, lastHash |-> fin.lastHash, health |-> fin.health,
                  calls |-> rec.calls, remote |-> rec.remote, loggedIn |-> rec.loggedIn,
                  logins |-> rec.logins,
                  lookups |-> st.lookups, parsed |-> st.parsed, all |-> st.all,
                  normalized |-> st.normalized])

\* Syncer.Run with Syncer s, client c, controller state rem and health server
\* hs, the feeds and the controller behaving as in says.  err is "nil" when
\* Run returns nil.
Run(s, c, rem, hs, feedsList, in) ==
    Bind(Stages[feedsList, in.world], LAMBDA st :
        IF noChange(s, st.currentHash)
        THEN [err |-> "nil", lastHash |-> s.lastHash, health |-> hs, calls |-> <<>>,
              remote |-> rem, loggedIn |-> c.loggedIn, logins |-> 0,
              lookups |-> st.lookups, parsed |-> st.parsed, all |-> st.all,
              normalized |-> st.normalized]
        ELSE LET rec == reconcile(c, rem, st.members, in)
                 fin == finish(s, hs, st.currentHash, rec.err)
             IN  [err |-> rec.err, lastHash |-> fin.lastHash, health |-> fin.health,
                  calls |-> rec.calls, remote |-> rec.remote, loggedIn |-> rec.loggedIn,
                  logins |-> rec.logins,
                  lookups |-> st.lookups, parsed |-> st.parsed, all |-> st.all,
                  normalized |-> st.normalized])

\* The controller before the program starts: another group, and either no
\* group of the configured name or one with an older membership.
LanGroup == [id |-> 1, name |-> "lan-hosts", type |-> "address-group", members |-> <<String(N4)>>]
OldGroup == [id |-> 2, name |-> GroupName, type |-> "address-group", members |-> <<String(N1)>>]
InitialRemotes == { <<LanGroup>>, <<LanGroup, OldGroup>> }

\* ------------------------------------------------------------------- state
VARIABLES
    pc,             \* where main is: "login", "setup", "initial", "initialRun",
                    \* "loop", "tickRun", "stopped", "exited"
    feeds,          \* cfg.Feeds
    healthEnabled,  \* cfg.Health.Enabled
    syncer,         \* the Syncer: lastHash, healthRecorder (set or nil)
    client,         \* the unifi Client: loggedIn
    remote,         \* the controller's firewall groups
    health,         \* the HealthServer
    runs,           \* number of Run calls that have returned
    last,           \* the last Run: what it fetched, called and returned
    twin,           \* a second Syncer with its own client, controller and health
                    \* server, built from the same configuration with the
                    \* recorder wired the other way, and given the same inputs
    active,         \* number of Run calls executing
    signal,         \* the shutdown signal: "none", "during" (it arrived while
                    \* the Run now executing was executing), "pending"
    succeeded,      \* some Run has returned nil
    given,          \* the input of a study of one package on its own: the
                    \* texts, body lines, parsers or feed entries handed to it
                    \* (in the program with drift: when the controller was
                    \* last changed by hand)
    entries,        \* what the function studied is applied to
    result,         \* what it returned
    step            \* the last operation of that study

vars == <<pc, feeds, healthEnabled, syncer, client, remote, health, runs, last, twin,
          active, signal, succeeded, given, entries, result, step>>

NoRun ==
    [err |-> "none", calls |-> <<>>, logins |-> 0, lookups |-> <<>>, parsed |-> <<>>, all |-> <<>>,
     normalized |-> <<>>, world |-> NoWorld, signalAt |-> "never", ctx |-> "none"]

Init ==
    /\ pc = "login"
    /\ feeds \in {f \in Configs : ValidFeeds(f)}
    /\ healthEnabled \in BOOLEAN
    /\ syncer = New
    /\ client = [loggedIn |-> FALSE]
    /\ remote \in InitialRemotes
    /\ health = NewHealthServer
    /\ runs = 0
    /\ last = NoRun
    /\ twin = [syncer |-> New, client |-> [loggedIn |-> FALSE], remote |-> remote,
               health |-> NewHealthServer, calls |-> <<>>, err |-> "none"]
    /\ active = 0
    /\ signal = "none"
    /\ succeeded = FALSE
    /\ given = <<>>
    /\ entries = <<>>
    /\ result = <<>>
    /\ step = "main"

\* main: the connection test.  A failed Login ends the process.
MainLogin ==
    /\ pc = "login"
    /\ \E out \in LoginOutcomes :
          LET l == Login(client, out)
          IN  /\ client' = [loggedIn |-> l.loggedIn]
              /\ twin' = [twin EXCEPT !.client = [loggedIn |-> l.loggedIn]]
              /\ pc' = IF l.err = "nil" THEN "setup" ELSE "exited"
    /\ UNCHANGED <<given, entries, result, step, feeds, healthEnabled, syncer, remote, health, runs, last,
                   active, signal, succeeded>>

\* main: the health server is created, started and set as the Syncer's
\* recorder when health.enabled is set; then the signal context is set up.
MainSetup ==
    /\ pc = "setup"
    /\ syncer' = IF healthEnabled THEN SetHealthRecorder(syncer, TRUE) ELSE syncer
    /\ twin' = [twin EXCEPT !.syncer = IF healthEnabled THEN @ ELSE SetHealthRecorder(@, TRUE)]
    /\ health' = IF healthEnabled THEN Start(health) ELSE health
    /\ pc' = "initial"
    /\ UNCHANGED <<given, entries, result, step, feeds, healthEnabled, client, remote, runs, last,
                   active, signal, succeeded>>

\* One call of syncer.Run by main, and main's RecordError when it returns an
\* error and the health server exists.
CallRun(in, ctx, at) ==
    \E r \in {Run(syncer, client, remote, health, feeds, in)},
       t \in {Run(twin.syncer, twin.client, twin.remote, twin.health, feeds, in)} :
        /\ syncer' = [syncer EXCEPT !.lastHash = r.lastHash]
        /\ client' = [loggedIn |-> r.loggedIn]
        /\ remote' = r.remote
        /\ health' = IF r.err # "nil" /\ healthEnabled THEN RecordError(r.health) ELSE r.health
        /\ runs' = runs + 1
        /\ last' = [err |-> r.err, calls |-> r.calls, logins |-> r.logins, lookups |-> r.lookups, parsed |-> r.parsed,
                    all |-> r.all, normalized |-> r.normalized, world |-> in.world,
                    signalAt |-> at, ctx |-> ctx]
        /\ twin' = [syncer |-> [twin.syncer EXCEPT !.lastHash = t.lastHash],
                    client |-> [loggedIn |-> t.loggedIn], remote |-> t.remote,
                    health |-> t.health, calls |-> t.calls, err |-> t.err]
        /\ succeeded' = (succeeded \/ r.err = "nil")

\* A plausible slip: Run is started with a go statement, main does not wait.
callsRun_go(at) == "loop"

\* Where main is after it has called syncer.Run: in the call, until it returns.
callsRun(at) == at

\* main: the initial sync begins.
InitialSync ==
    /\ pc = "initial"
    /\ pc' = callsRun("initialRun")
    /\ active' = active + 1
    /\ UNCHANGED <<given, entries, result, step, feeds, healthEnabled, syncer, client, remote, health, runs, last, twin,
                   signal, succeeded>>

\* main's loop, the ticker case: ticker.C delivers a tick (one that fired while
\* main was in a Run waits in the channel) and a scheduled sync begins.
TickWithin(max) ==
    /\ pc = "loop"
    /\ runs + active < max
    /\ pc' = callsRun("tickRun")
    /\ active' = active + 1
    /\ UNCHANGED <<given, entries, result, step, feeds, healthEnabled, syncer, client, remote, health, runs, last, twin,
                   signal, succeeded>>

\* The Run that is executing returns to main, which goes on to its loop; the
\* feeds and the controller behaved during it in one of the ways in inputs.
RunReturnsIn(inputs) ==
    /\ active > 0
    /\ \E in \in inputs, at \in SignalPoints(signal) :
          CallRun(Cancelled(in, runCtx(pc), at), runCtx(pc), at)
    /\ active' = active - 1
    /\ pc' = IF pc \in {"initialRun", "tickRun"} THEN "loop" ELSE pc
    /\ signal' = IF signal = "during" THEN "pending" ELSE signal
    /\ UNCHANGED <<given, entries, result, step, feeds, healthEnabled>>

RunReturns == RunReturnsIn(Inputs(client))

\* The process receives SIGINT or SIGTERM after signal.NotifyContext: the
\* signal context is cancelled.
Signal ==
    /\ pc \in {"initial", "initialRun", "loop", "tickRun"}
    /\ signal = "none"
    /\ signal' = IF active > 0 THEN "during" ELSE "pending"
    /\ UNCHANGED <<given, entries, result, step, pc, feeds, healthEnabled, syncer, client, remote, health, runs, last, twin,
                   active, succeeded>>

\* main's loop, the ctx.Done() case: the health server is stopped and main
\* returns.
Shutdown ==
    /\ pc = "loop"
    /\ signal # "none"
    /\ health' = IF healthEnabled THEN Stop(health) ELSE health
    /\ pc' = "stopped"
    /\ UNCHANGED <<given, entries, result, step, feeds, healthEnabled, syncer, client, remote, runs, last, twin,
                   active, signal, succeeded>>

Tick == TickWithin(MaxRuns)

TickBeforeShutdown == TickWithin(MaxSignalRuns)

\* The program while no shutdown signal arrives.
Next ==
    \/ MainLogin
    \/ MainSetup
    \/ InitialSync
    \/ Tick
    \/ RunReturns

Spec == Init /\ [][Next]_vars

\* The program with shutdown signals.
NextSignal ==
    \/ MainLogin
    \/ MainSetup
    \/ InitialSync
    \/ TickBeforeShutdown
    \/ RunReturns
    \/ Signal
    \/ Shutdown

SpecSignal == Init /\ [][NextSignal]_vars

\* The feeds and the controller in the study of the shutdown: the feeds all
\* answer, or none does; the controller answers the lookup, and carries the
\* update out or refuses it.
ShutdownInputs(c) ==
    {in \in Inputs(c) :
        /\ in.world \in {w \in Worlds : \A u \in Urls : w[u].kind = "body"} \cup
                        {w \in Worlds : \A u \in {"u1", "u2"} : w[u].kind # "body"}
        /\ in.get = "ok"
        /\ in.mut \in {"ok", "status"}}

RunEnds == RunReturnsIn(ShutdownInputs(client))

NextShutdown ==
    \/ MainLogin
    \/ MainSetup
    \/ InitialSync
    \/ TickBeforeShutdown
    \/ RunEnds
    \/ Signal
    \/ Shutdown

\* The program with shutdown signals, where main goes on when it can: a Run
\* that has been called returns, and a select with the ctx.Done() case ready
\* again and again takes it at some point (Go chooses among the ready cases
\* at random).
SpecShutdown ==
    /\ Init
    /\ [][NextShutdown]_vars
    /\ WF_vars(InitialSync)
    /\ WF_vars(RunEnds)
    /\ SF_vars(Shutdown)

\* The group without the members an operator removes by hand.
EditedMembers == <<>>

\* Somebody deletes the group on the controller, outside the program, while
\* main waits in its loop.  given notes after how many Run calls.
ExternalDelete ==
    /\ pc = "loop"
    /\ \E i \in 1..Len(remote) : remote[i].name = GroupName
    /\ remote' = SelectSeq(remote, LAMBDA g : g.name # GroupName)
    /\ twin' = [twin EXCEPT !.remote = SelectSeq(@, LAMBDA g : g.name # GroupName)]
    /\ given' = <<runs>>
    /\ step' = "ExternalDelete"
    /\ UNCHANGED <<pc, feeds, healthEnabled, syncer, client, health, runs, last, active, signal,
                   succeeded, entries, result>>

\* Somebody edits the group's members on the controller, outside the program.
ExternalEdit ==
    /\ pc = "loop"
    /\ \E i \in 1..Len(remote) : remote[i].name = GroupName /\ remote[i].members # EditedMembers
    /\ remote' = [i \in 1..Len(remote) |->
                     IF remote[i].name = GroupName
                     THEN [remote[i] EXCEPT !.members = EditedMembers] ELSE remote[i]]
    /\ twin' = [twin EXCEPT !.remote =
                    [i \in 1..Len(@) |->
                        IF @[i].name = GroupName
                        THEN [@[i] EXCEPT !.members = EditedMembers] ELSE @[i]]]
    /\ given' = <<runs>>
    /\ step' = "ExternalEdit"
    /\ UNCHANGED <<pc, feeds, healthEnabled, syncer, client, health, runs, last, active, signal,
                   succeeded, entries, result>>

\* The program while the controller's group is also changed by hand.
NextDrift ==
    \/ MainLogin
    \/ MainSetup
    \/ InitialSync
    \/ Tick
    \/ RunReturns
    \/ ExternalDelete
    \/ ExternalEdit

SpecDrift == Init /\ [][NextDrift]_vars

\* ------------------------------------- parsing and normalizing on their own
\* The texts explored: a bare IPv4 address and its /32 CIDR, a CIDR with host
\* bits set and the same CIDR with its network address, a bare IPv6 address and
\* its /128 CIDR, a bare IPv4-mapped IPv6 address, a text that is neither, the
\* /128 CIDR of the IPv4-mapped address, and a bare address inside the CIDR.
T1 == Text(<<"2", "0", "3", ".", "0", ".", "1", "1", "3", ".", "5">>)
T2 == Text(<<"2", "0", "3", ".", "0", ".", "1", "1", "3", ".", "5", "/", "3", "2">>)
T3 == Text(<<"1", "0", ".", "1", ".", "2", ".", "3", "/", "8">>)
T4 == Text(<<"1", "0", ".", "0", ".", "0", ".", "0", "/", "8">>)
T5 == Text(<<":", ":", "1">>)
T6 == Text(<<":", ":", "1", "/", "1", "2", "8">>)
T7 == Text(<<":", ":", "f", "f", "f", "f", ":", "2", "0", "3", ".", "0", ".", "1", "1", "3", ".", "5">>)
T8 == Text(<<"1", ".", "2", ".", "3">>)
T9 == T7 \o Text(<<"/", "1", "2", "8">>)
T10 == Text(<<"1", "0", ".", "1", ".", "2", ".", "3">>)

Texts == {T1, T2, T3, T4, T5, T6, T7, T8, T9, T10}

\* parseIPOrCIDR, computed once for each of the texts.
Parses == [t \in Texts |-> parseIPOrCIDR(t)]

\* The entries parseIPOrCIDR gives for the texts it accepts, in order.
RECURSIVE Parsed(_)
Parsed(texts) ==
    IF texts = <<>> THEN <<>>
    ELSE LET r == Parses[Head(texts)]
         IN  (IF r.err = "nil" THEN <<r.ipnet>> ELSE <<>>) \o Parsed(Tail(texts))

InitNormalize ==
    /\ pc = "normalize"
    /\ feeds = <<>>
    /\ healthEnabled = FALSE
    /\ syncer = New
    /\ client = [loggedIn |-> FALSE]
    /\ remote = <<>>
    /\ health = NewHealthServer
    /\ runs = 0
    /\ last = NoRun
    /\ twin = [syncer |-> New, client |-> [loggedIn |-> FALSE], remote |-> <<>>,
               health |-> NewHealthServer, calls |-> <<>>, err |-> "none"]
    /\ active = 0
    /\ signal = "none"
    /\ succeeded = FALSE
    /\ given \in UNION {[1..n -> Texts] : n \in 0..MaxLen}
    /\ entries = Parsed(given)
    /\ result = Normalize(entries)
    /\ step = "init"

\* The texts at two neighbouring positions change places, and are parsed and
\* normalized again.
Swap ==
    /\ \E i \in 1..(Len(given) - 1) :
          given' = [given EXCEPT ![i] = given[i + 1], ![i + 1] = given[i]]
    /\ entries' = Parsed(given')
    /\ result' = Normalize(entries')
    /\ step' = "Swap"
    /\ UNCHANGED <<pc, feeds, healthEnabled, syncer, client, remote, health, runs, last, twin,
                   active, signal, succeeded>>

\* One of the texts is given once more, at the end.
Duplicate ==
    /\ Len(given) < MaxLen
    /\ \E i \in 1..Len(given) : given' = Append(given, given[i])
    /\ entries' = Parsed(given')
    /\ result' = Normalize(entries')
    /\ step' = "Duplicate"
    /\ UNCHANGED <<pc, feeds, healthEnabled, syncer, client, remote, health, runs, last, twin,
                   active, signal, succeeded>>

\* What Normalize returned is given to Normalize.
Renormalize ==
    /\ step # "Renormalize"
    /\ given' = given
    /\ entries' = result
    /\ result' = Normalize(result)
    /\ step' = "Renormalize"
    /\ UNCHANGED <<pc, feeds, healthEnabled, syncer, client, remote, health, runs, last, twin,
                   active, signal, succeeded>>

NextNormalize == Swap \/ Duplicate \/ Renormalize

SpecNormalize == InitNormalize /\ [][NextNormalize]_vars

\* ------------------------------------------------ the parsers on their own
\* The body lines explored: a CIDR, an address with blanks around it, a "#"
\* comment after a blank, an empty line, a ";" comment, a "//" comment, a CIDR
\* followed by a comment on the same line, and a line longer than the scanner
\* takes.
L1 == T4
L2 == Text(<<" ", "1", "9", "2", ".", "1", "6", "8", ".", "1", ".", "1", " ">>)
L3 == Text(<<" ", "#", " ", "a">>)
L4 == <<>>
L5 == Text(<<";", "a">>)
L6 == Text(<<"/", "/", "x">>)
L7 == Text(<<"1", "0", ".", "0", ".", "0", ".", "0", "/", "8", " ", ";", " ", "a">>)

BodyLines == {L1, L2, L3, L4, L5, L6, L7, LongLine}

MaxLines == 3

\* A body of five lines, as bytes: a comment, an empty line, a CIDR (this line
\* ends in "\r\n"), a ";" line and a bare address.
ExampleBody ==
    Text(<<"#", " ", "a", "b", "c">>) \o <<10>> \o <<10>> \o T4 \o <<13, 10>>
    \o Text(<<";", "f", "e", "d">>) \o <<10>>
    \o Text(<<"1", "9", "2", ".", "1", "6", "8", ".", "1", ".", "1">>) \o <<10>>

Bodies == UNION {[1..n -> BodyLines] : n \in 0..MaxLines} \cup {ScanLines(ExampleBody)}

\* What client.Do gives for a request: it fails ("transport"), the context is
\* cancelled ("canceled"), or a response with this status arrives.
Statuses == {200, 204, 404, 500}

Response(cause, status, lines) ==
    [kind |-> IF cause # "none" THEN "fetcherr" ELSE IF status = 200 THEN "body" ELSE "status",
     cause |-> cause, status |-> status, nets |-> <<>>, lines |-> lines]

ResponsesWith(lines) ==
    {Response(cause, 0, lines) : cause \in {"transport", "canceled"}}
    \cup {Response("none", status, lines) : status \in Statuses}

NoCall == [op |-> "none", parser |-> NoParser, resp |-> FetchErr]

InitParse ==
    /\ pc = "parse"
    /\ feeds = <<>>
    /\ healthEnabled = FALSE
    /\ syncer = New
    /\ client = [loggedIn |-> FALSE]
    /\ remote = <<>>
    /\ health = NewHealthServer
    /\ runs = 0
    /\ last = NoRun
    /\ twin = [syncer |-> New, client |-> [loggedIn |-> FALSE], remote |-> <<>>,
               health |-> NewHealthServer, calls |-> <<>>, err |-> "none"]
    /\ active = 0
    /\ signal = "none"
    /\ succeeded = FALSE
    /\ given \in Bodies
    /\ entries = NoCall
    /\ result = [err |-> "none", networks |-> <<>>]
    /\ step = "init"

\* PlainParser.parseBody reads the body.
PlainBody ==
    /\ entries' = [op |-> "parseBody", parser |-> PlainParser, resp |-> Response("none", 200, given)]
    /\ result' = PlainParseBody(given)
    /\ step' = "PlainBody"
    /\ UNCHANGED <<pc, feeds, healthEnabled, syncer, client, remote, health, runs, last, twin,
                   active, signal, succeeded, given>>

\* NetsetParser.parseBody reads the body.
NetsetBody ==
    /\ entries' = [op |-> "parseBody", parser |-> NetsetParser, resp |-> Response("none", 200, given)]
    /\ result' = NetsetParseBody(given)
    /\ step' = "NetsetBody"
    /\ UNCHANGED <<pc, feeds, healthEnabled, syncer, client, remote, health, runs, last, twin,
                   active, signal, succeeded, given>>

\* Parse of the plain or the netset parser, the request going one of the ways
\* it can go; the body, when one arrives, is the one given.
ParseFeed ==
    /\ \E p \in {PlainParser, NetsetParser}, resp \in ResponsesWith(given) :
          /\ entries' = [op |-> "Parse", parser |-> p, resp |-> resp]
          /\ result' = Parse(p, resp)
    /\ step' = "ParseFeed"
    /\ UNCHANGED <<pc, feeds, healthEnabled, syncer, client, remote, health, runs, last, twin,
                   active, signal, succeeded, given>>

NextParse == PlainBody \/ NetsetBody \/ ParseFeed

SpecParse == InitParse /\ [][NextParse]_vars

\* ----------------------------------------------- the registry on its own
\* The parsers handed to Register: each of the two implementations, under its
\* own name, the other's, or a third.
MaxRegistered == 3

StudyNames == {"plain", "netset", "custom"}

StudyParsers == {[name |-> n, impl |-> i] : n \in StudyNames, i \in {"NetsetParser", "PlainParser"}}

InitRegistry ==
    /\ pc = "registry"
    /\ feeds = <<>>
    /\ healthEnabled = FALSE
    /\ syncer = New
    /\ client = [loggedIn |-> FALSE]
    /\ remote = <<>>
    /\ health = NewHealthServer
    /\ runs = 0
    /\ last = NoRun
    /\ twin = [syncer |-> New, client |-> [loggedIn |-> FALSE], remote |-> <<>>,
               health |-> NewHealthServer, calls |-> <<>>, err |-> "none"]
    /\ active = 0
    /\ signal = "none"
    /\ succeeded = FALSE
    /\ given = <<>>
    /\ entries = <<>>
    /\ result = EmptyRegistry
    /\ step = "init"

\* Register(p): given lists the parsers registered so far, result is the
\* registry.
RegisterParser ==
    /\ Len(given) < MaxRegistered
    /\ \E p \in StudyParsers :
          /\ given' = Append(given, p)
          /\ result' = Register(result, p)
    /\ step' = "Register"
    /\ UNCHANGED <<pc, feeds, healthEnabled, syncer, client, remote, health, runs, last, twin,
                   active, signal, succeeded, entries>>

NextRegistry == RegisterParser

SpecRegistry == InitRegistry /\ [][NextRegistry]_vars

\* ------------------------------------------ loading the configuration file
\* A feed entry of the configuration file.  A key the file leaves out is ""
\* for name and timeout, and "omitted" for enabled.
MaxFeeds == 2

YamlFeeds ==
    [name : {"f1", ""}, url : {"u1"}, parser : {"plain"},
     enabled : {"true", "false", "omitted"}, timeout : {"", "10s"}]

\* yaml.Unmarshal into []FeedConfig: a key the file leaves out leaves the
\* field at Go's zero value, which is false for Enabled.
Unmarshal(docs) ==
    [i \in 1..Len(docs) |->
        [name |-> docs[i].name, url |-> docs[i].url, parser |-> docs[i].parser,
         enabled |-> (docs[i].enabled = "true"), timeout |-> docs[i].timeout]]

\* Config.setDefaults, the loop over the feeds: an empty Timeout becomes
\* "30s"; no other field of a feed is assigned.
setDefaults(f) ==
    [i \in 1..Len(f) |-> IF f[i].timeout = "" THEN [f[i] EXCEPT !.timeout = "30s"] ELSE f[i]]

\* Load, for cfg.Feeds.
Load(docs) == setDefaults(Unmarshal(docs))

\* The feeds all answer with a body while the loaded configuration is used.
LoadWorld == CHOOSE w \in Worlds : \A u \in Urls : w[u].kind = "body"

InitConfig ==
    /\ pc = "config"
    /\ feeds = <<>>
    /\ healthEnabled = FALSE
    /\ syncer = New
    /\ client = [loggedIn |-> FALSE]
    /\ remote = <<>>
    /\ health = NewHealthServer
    /\ runs = 0
    /\ last = NoRun
    /\ twin = [syncer |-> New, client |-> [loggedIn |-> FALSE], remote |-> <<>>,
               health |-> NewHealthServer, calls |-> <<>>, err |-> "none"]
    /\ active = 0
    /\ signal = "none"
    /\ succeeded = FALSE
    /\ given \in UNION {[1..n -> YamlFeeds] : n \in 0..MaxFeeds}
    /\ entries = <<>>
    /\ result = [count |-> 0, enabled |-> <<>>, valid |-> FALSE, lookups |-> <<>>]
    /\ step = "init"

\* Load reads the file; then EnabledCount, GetEnabled, Validate and the
\* fetch stage of Run are applied to cfg.Feeds.
LoadConfig ==
    /\ step = "init"
    /\ entries' = Load(given)
    /\ result' = [count |-> EnabledCount(entries'), enabled |-> GetEnabled(entries'),
                  valid |-> ValidFeeds(entries'),
                  lookups |-> fetchAllFeeds(entries', LoadWorld).lookups]
    /\ step' = "Load"
    /\ UNCHANGED <<pc, feeds, healthEnabled, syncer, client, remote, health, runs, last, twin,
                   active, signal, succeeded, given>>

NextConfig == LoadConfig

SpecConfig == InitConfig /\ [][NextConfig]_vars

\* --------------------------------------------------------- Merge on its own
\* The lists handed to Merge are built up text by text: given holds the
\* lists of texts, entries the lists of their entries, result what Merge
\* returns for them.
MaxLists == 3

MergeTexts == {T1, T2, T4, T10}

\* The entries of each list of texts.
ParsedLists(lists) == [i \in 1..Len(lists) |-> Parsed(lists[i])]

\* The number of texts in the lists.
RECURSIVE TotalLen(_)
TotalLen(lists) == IF lists = <<>> THEN 0 ELSE Len(Head(lists)) + TotalLen(Tail(lists))

InitMerge ==
    /\ pc = "merge"
    /\ feeds = <<>>
    /\ healthEnabled = FALSE
    /\ syncer = New
    /\ client = [loggedIn |-> FALSE]
    /\ remote = <<>>
    /\ health = NewHealthServer
    /\ runs = 0
    /\ last = NoRun
    /\ twin = [syncer |-> New, client |-> [loggedIn |-> FALSE], remote |-> <<>>,
               health |-> NewHealthServer, calls |-> <<>>, err |-> "none"]
    /\ active = 0
    /\ signal = "none"
    /\ succeeded = FALSE
    /\ given = <<>>
    /\ entries = <<>>
    /\ result = Merge(<<>>)
    /\ step = "init"

\* One more list, empty so far, is handed to Merge.
AddList ==
    /\ Len(given) < MaxLists
    /\ given' = Append(given, <<>>)
    /\ entries' = ParsedLists(given')
    /\ result' = Merge(entries')
    /\ step' = "AddList"
    /\ UNCHANGED <<pc, feeds, healthEnabled, syncer, client, remote, health, runs, last, twin,
                   active, signal, succeeded>>

\* The last list gets one more text.
AddText ==
    /\ Len(given) > 0
    /\ TotalLen(given) < MaxLen
    /\ \E t \in MergeTexts : given' = [given EXCEPT ![Len(given)] = Append(@, t)]
    /\ entries' = ParsedLists(given')
    /\ result' = Merge(entries')
    /\ step' = "AddText"
    /\ UNCHANGED <<pc, feeds, healthEnabled, syncer, client, remote, health, runs, last, twin,
                   active, signal, succeeded>>

NextMerge == AddList \/ AddText

SpecMerge == InitMerge /\ [][NextMerge]_vars

\* ------------------------------------------------------------------ claims
\* A step that is one call of Run.
IsRun == runs' = runs + 1

\* The create and update calls among calls.
Mutating(calls) == SelectSeq(calls, LAMBDA c : c.op \in {"createGroup", "updateGroup"})

\* A group of the configured name exists on the controller.
GroupExists(rem) == \E i \in 1..Len(rem) : rem[i].name = GroupName

\* strs is strictly ascending (so it has no duplicates).
Ascending(strs) == \A i, j \in 1..Len(strs) : i < j => StrLess(strs[i], strs[j])

\* The feed at position i of f is enabled, has a registered parser and its
\* server answers with a body that holds an entry.
Succeeds(f, world, i) ==
    /\ f[i].enabled
    /\ f[i].parser \in {"plain", "netset"}
    /\ world[f[i].url].kind = "body"
    /\ world[f[i].url].nets # <<>>

\* The entries of the feeds that succeed, concatenated in list order.
RECURSIVE AggregateFrom(_, _, _)
AggregateFrom(f, world, i) ==
    IF i > Len(f) THEN <<>>
    ELSE (IF Succeeds(f, world, i) THEN world[f[i].url].nets ELSE <<>>)
         \o AggregateFrom(f, world, i + 1)

\* The canonical strings of the entries of the feeds that succeed.
CanonicalSet(f, world) ==
    LET a == AggregateFrom(f, world, 1) IN {String(a[i]) : i \in 1..Len(a)}

\* The names of the feeds of f at the positions in idx, in list order.
RECURSIVE NamesAt(_, _, _)
NamesAt(f, idx, i) ==
    IF i > Len(f) THEN <<>>
    ELSE (IF i \in idx THEN <<f[i].name>> ELSE <<>>) \o NamesAt(f, idx, i + 1)

EnabledIdx(f) == {i \in 1..Len(f) : f[i].enabled}

\* C1: when the normalized set of a Run differs from that of the previous Run,
\* the Run makes exactly one mutating call, createGroup if the group does not
\* exist and updateGroup otherwise, whose members are the canonical strings of
\* the new set, ascending and without duplicates.
C1_OneFullReplace ==
    [][(IsRun /\ last.err # "none" /\ last'.normalized # last.normalized) =>
          LET m == Mutating(last'.calls)
          IN  /\ Len(m) = 1
              /\ m[1].op = IF GroupExists(remote) THEN "updateGroup" ELSE "createGroup"
              /\ Ascending(m[1].members)
              /\ {m[1].members[i] : i \in 1..Len(m[1].members)} = CanonicalSet(feeds, last'.world)]_vars

\* C2, as stated: of two consecutive Runs in which the feeds return the same
\* content, the second makes no remote call and returns success.
C2_Original ==
    [][(IsRun /\ last.err # "none" /\ last'.world = last.world) =>
          (last'.calls = <<>> /\ last'.err = "nil")]_vars

\* C2, amended: of two consecutive Runs in which the feeds return the same
\* content and the first of which returned success, the second makes no remote
\* call and returns success.
C2_NoCallWhenUnchanged ==
    [][(IsRun /\ last.err = "nil" /\ last'.world = last.world) =>
          (last'.calls = <<>> /\ last'.err = "nil")]_vars

\* The second Run took the no-change path (which needs the fingerprint the
\* first Run stored, so the first Run succeeded with the same set).
C2_Witness == runs = 2 /\ last.err = "nil" /\ last.calls = <<>>

\* C3: if getGroup (other than by reporting that the group is not there),
\* createGroup or updateGroup fails during a Run, lastHash after the Run is
\* its value before the Run.
C3_HashKeptOnFailure ==
    [][(IsRun /\ \E i \in 1..Len(last'.calls) : last'.calls[i].err \notin {"nil", "notfound"}) =>
          syncer'.lastHash = syncer.lastHash]_vars

\* C4: after a Run that returned a reconcile error, the next Run with the same
\* normalized set calls getGroup and then createGroup or updateGroup with that
\* set (it does not take the no-change path); the same holds again after every
\* Run that fails.
C4_RetryAfterFailure ==
    [][(IsRun /\ last.err \notin {"none", "nil"} /\ last'.normalized = last.normalized) =>
          /\ Len(last'.calls) = 2
          /\ last'.calls[1].op = "getGroup"
          /\ last'.calls[2].op \in {"createGroup", "updateGroup"}
          /\ last'.calls[2].members = ToStrings(last.normalized)]_vars

\* Two failed Runs in a row with the same set, after a Run that succeeded: the
\* reconcile was tried again by the third.
C4_Witness ==
    /\ runs = 3
    /\ last.err \notin {"none", "nil"}
    /\ Len(last.calls) = 2
    /\ syncer.lastHash # EmptyHash
    /\ syncer.lastHash # calculateHash(last.normalized)
    /\ last.calls[2].members = ToStrings(last.normalized)

\* C5: whenever Run returns an error, the controller's groups are what they
\* were before the Run.
C5_RemoteKeptOnError ==
    [][(IsRun /\ last'.err # "nil") => remote' = remote]_vars

\* C6: Run calls createGroup only when getGroup reported that the group does
\* not exist; when getGroup fails in any other way Run returns an error and
\* calls neither createGroup nor updateGroup.
C6_CreateOnlyWhenNotFound ==
    \A i \in 1..Len(last.calls) :
        /\ last.calls[i].op = "createGroup" => last.calls[1].err = "notfound"
        /\ (last.calls[i].op = "getGroup" /\ last.calls[i].err \notin {"nil", "notfound"}) =>
              (Len(last.calls) = 1 /\ last.err # "nil")

\* C7: a feed that fails (unknown parser, or Parse returning an error) does not
\* make Run fail and does not stop the later feeds from being fetched: every
\* enabled feed is looked up, the aggregate is the concatenation in list order
\* of the entries of exactly the feeds that succeeded, and Run returns an error
\* only when a remote call failed.
C7_FeedFailureContained ==
    last.err # "none" =>
        /\ last.lookups = NamesAt(feeds, EnabledIdx(feeds), 1)
        /\ last.all = AggregateFrom(feeds, last.world, 1)
        /\ last.err # "nil" =>
              (Len(last.calls) = 2 /\ last.calls[2].err # "nil")

\* The first feed failed, the later feeds were still fetched, and Run returned
\* success with the entries of the feed that answered.
C7_Witness ==
    /\ last.err = "nil"
    /\ last.world["u1"].kind = "fetcherr"
    /\ feeds[1].url = "u1"
    /\ "greynoise" \in {feeds[i].parser : i \in EnabledIdx(feeds)}
    /\ last.all = <<N3, N1>>

C9_RecorderDoesNotMatter ==
    /\ pc \in {"initial", "loop"} => twin.syncer.healthRecorder # syncer.healthRecorder
    /\ twin.syncer.lastHash = syncer.lastHash
    /\ twin.calls = last.calls
    /\ twin.err = last.err
    /\ twin.remote = remote
    /\ twin.client = client

\* Both Syncers have reconciled and returned success; only one recorded a sync.
C9_Witness ==
    /\ last.err = "nil"
    /\ Len(last.calls) = 2
    /\ syncer.lastHash # EmptyHash
    /\ twin.syncer.healthRecorder # syncer.healthRecorder
    /\ twin.health.syncCount # health.syncCount

\* C10: with a recorder wired, every Run that returns success calls RecordSync
\* exactly once, the no-change path included: syncCount goes up by one.
C10_SyncCountedOnEverySuccess ==
    [][(IsRun /\ syncer.healthRecorder /\ last'.err = "nil") =>
          health'.syncCount = health.syncCount + 1]_vars

\* C11: with the health server enabled, the readiness endpoint answers 503 in
\* every state in which no Run has returned success yet and 200 in every state
\* after the first Run that returned success, whatever later cycles fail.
C11_ReadyAfterFirstSuccess ==
    healthEnabled => handleReady(health, "GET") = IF succeeded THEN 200 ELSE 503

\* A cycle failed after one that succeeded, and the endpoint still answers 200.
C11_Witness ==
    /\ healthEnabled
    /\ succeeded
    /\ last.err \notin {"none", "nil"}
    /\ health.errorCount > 0
    /\ handleReady(health, "GET") = 200

\* C12: with the health server enabled, errorCount goes up by one with every
\* Run (initial or scheduled) that returns an error and with nothing else, and
\* after a Run that returned an error main is in its loop, where the next tick
\* calls Run again.
C12_ErrorsCounted ==
    [][healthEnabled =>
          /\ health'.errorCount =
                health.errorCount + (IF IsRun /\ last'.err # "nil" THEN 1 ELSE 0)
          /\ (IsRun /\ last'.err # "nil") => pc' = "loop"]_vars

\* The initial sync and a scheduled sync failed, were counted, and a third Run
\* was called and succeeded.
C12_Witness ==
    /\ healthEnabled
    /\ runs = 3
    /\ health.errorCount = 2
    /\ last.err = "nil"
    /\ last.calls # <<>>

\* C13: when the shutdown signal arrives while a cycle is running, initial or
\* scheduled, the requests of that cycle that are in flight or still to come
\* are given up: the feed fetches when it arrives in the fetch stage, the
\* remote calls when it arrives before they have returned.
C13_SignalCancelsRunningCycle ==
    /\ last.signalAt = "fetch" => last.world = NoWorld
    /\ last.signalAt \in {"fetch", "midfetch", "get"} =>
          \A i \in 1..Len(last.calls) : last.calls[i].err = "canceled"
    /\ last.signalAt = "mut" =>
          \A i \in 1..Len(last.calls) :
             last.calls[i].op # "getGroup" => last.calls[i].err = "canceled"

\* C14: once getGroup has been issued, a cancellation of the Run's context does
\* not abort the createGroup or updateGroup that follows: the call is made and
\* is not given up.
C14_ReconcileFinishesAfterCancel ==
    (last.ctx = "signal" /\ last.signalAt \in {"get", "mut"}) =>
        /\ Len(Mutating(last.calls)) = 1
        /\ \A i \in 1..Len(last.calls) :
              last.calls[i].op # "getGroup" => last.calls[i].err # "canceled"

\* C15: at most one Run executes at any time: a Run begins only when none is
\* executing, and lastHash changes only in the step in which the one Run that
\* is executing returns.
C15_OneRunAtATime ==
    [][/\ active <= 1
       /\ active' <= 1
       /\ active' > active => active = 0
       /\ syncer'.lastHash # syncer.lastHash => (IsRun /\ active = 1)]_vars

\* A scheduled Run is executing after two Runs have returned, the last of
\* which changed lastHash.
C15_Witness ==
    /\ pc = "tickRun"
    /\ active = 1
    /\ runs = 2
    /\ last.err = "nil"
    /\ last.calls # <<>>

\* The orders in which n things can be taken.
Orders ==
    [n \in 0..(MaxLen + 1) |->
        {p \in [1..n -> 1..n] : \A i, j \in 1..n : i # j => p[i] # p[j]}]

\* networks with its entries taken in the order p.
Reordered(networks, p) == [i \in 1..Len(networks) |-> networks[p[i]]]

\* C16: whatever sequence Normalize is given, no two entries of what it returns
\* have the same canonical string.
C16_NoDuplicateKeys ==
    \A i, j \in 1..Len(result) : i # j => String(result[i]) # String(result[j])

\* Normalize was given two different entries with the same canonical string
\* next to an entry with another one.
C16_Witness ==
    /\ step \in {"init", "Swap", "Duplicate"}
    /\ Len(result) >= 2
    /\ \E i, j \in 1..Len(entries) :
          /\ entries[i] # entries[j]
          /\ String(entries[i]) = String(entries[j])

\* C17: what Normalize returns is in ascending order of canonical string; the
\* canonical strings and their order are the same for every order of the input,
\* and the entries are the same for every order in which the map is ranged
\* over; the empty input gives the empty output.
C17_SortedWhateverTheOrder ==
    /\ Ascending(ToStrings(result))
    /\ entries = <<>> => result = <<>>
    /\ \A strs \in {ToStrings(result)}, p \in Orders[Len(entries)] :
          ToStrings(Normalize(Reordered(entries, p))) = strs
    /\ \A p \in Orders[Len(result)] : NormalizeIn(entries, p) = result

\* Normalize was given entries with different canonical strings that were not
\* in ascending order.
C17_Witness ==
    /\ step = "init"
    /\ Len(entries) >= 2
    /\ Len(result) = Len(entries)
    /\ ~Ascending(ToStrings(entries))

\* C18: Normalize applied to what Normalize returned returns it unchanged,
\* entry for entry.
C18_Idempotent ==
    /\ Normalize(result) = result
    /\ step = "Renormalize" => result = entries

\* Normalize was applied to its own result for an input that had entries out
\* of order and an entry twice.
C18_Witness ==
    /\ step = "Renormalize"
    /\ Len(result) >= 2
    /\ Len(given) > Len(result)
    /\ ~Ascending(ToStrings(Parsed(given)))

\* C19: when the input is given in another order, or with an entry once more,
\* the fingerprint of what Normalize returns is the same, and a Syncer that
\* remembers the fingerprint of before finds no change, so makes no remote call.
C19_FingerprintIgnoresOrderAndCopies ==
    [][step' \in {"Swap", "Duplicate"} =>
          /\ calculateHash(result') = calculateHash(result)
          /\ noChange([New EXCEPT !.lastHash = calculateHash(result)],
                      calculateHash(result'))]_vars

\* An entry was given once more in an input of entries with different
\* canonical strings.
C19_Witness ==
    /\ step = "Duplicate"
    /\ Len(result) >= 2
    /\ Len(entries) = Len(result) + 1

\* A text without '/' (47) is a bare address, of IPv6 when it holds a ':' (58).
IsBare(t) == IndexByte(t, 47) = 0

IsIPv6Text(t) == IndexByte(t, 58) # 0

\* The text of a string from its last '/' on: "/" and the prefix length.
RECURSIVE PrefixPart(_)
PrefixPart(str) ==
    IF str = <<>> THEN <<>>
    ELSE IF str[Len(str)] = 47 THEN <<47>>
    ELSE PrefixPart(SubSeq(str, 1, Len(str) - 1)) \o <<str[Len(str)]>>

\* A bare address written as the CIDR of its full prefix length.
FullPrefix(t) == t \o (IF IsIPv6Text(t) THEN <<47, 49, 50, 56>> ELSE <<47, 51, 50>>)

\* Pairs of the texts explored that denote the same network: a bare address
\* and its full-prefix CIDR, and 10.1.2.3/8 and 10.0.0.0/8.
SameNetwork ==
    {<<t, FullPrefix(t)>> : t \in {u \in Texts : IsBare(u) /\ FullPrefix(u) \in Texts}}
        \cup {<<T3, T4>>}

\* The canonical string of the entry parseIPOrCIDR gives for t.
Canonical(t) == String(Parses[t].ipnet)

\* Texts of a pair that denotes one network have the same canonical string,
\* and Normalize keeps one entry for them.
SameNetworkOneEntry ==
    \A i, j \in 1..Len(given) :
        <<given[i], given[j]>> \in SameNetwork =>
            /\ Parses[given[i]].err = "nil"
            /\ Parses[given[j]].err = "nil"
            /\ Canonical(given[i]) = Canonical(given[j])
            /\ Cardinality({k \in 1..Len(result) :
                              String(result[k]) = Canonical(given[i])}) = 1

\* C20 as stated: a bare IPv4 address gets the canonical form address/32 and
\* a bare IPv6 address the prefix length 128 on its address, and texts that
\* denote the same network have one canonical string and one entry.
C20_Original ==
    /\ \A i \in 1..Len(given) :
          (IsBare(given[i]) /\ Parses[given[i]].err = "nil") =>
              IF IsIPv6Text(given[i])
              THEN /\ PrefixPart(Canonical(given[i])) = <<47, 49, 50, 56>>
                   /\ Parses[given[i]].ipnet.ip = ParseIP(given[i])
              ELSE Canonical(given[i]) = FullPrefix(given[i])
    /\ SameNetworkOneEntry

\* C20: a bare IPv4 address gets the canonical form address/32; a bare IPv6
\* address that is an IPv4-mapped one (::ffff:a.b.c.d) gets a.b.c.d/32 and any
\* other bare IPv6 address the prefix length 128 on its address; texts that
\* denote the same network have one canonical string and one entry.
C20_CanonicalForms ==
    /\ \A i \in 1..Len(given) :
          (IsBare(given[i]) /\ Parses[given[i]].err = "nil") =>
              IF ~IsIPv6Text(given[i])
              THEN Canonical(given[i]) = FullPrefix(given[i])
              ELSE IF To4(ParseIP(given[i])) # <<>>
                   THEN Canonical(given[i]) = IPString(To4(ParseIP(given[i]))) \o <<47, 51, 50>>
              ELSE /\ PrefixPart(Canonical(given[i])) = <<47, 49, 50, 56>>
                   /\ Parses[given[i]].ipnet.ip = ParseIP(given[i])
    /\ SameNetworkOneEntry

\* A CIDR with host bits set, the same CIDR with its network address and a
\* bare IPv4-mapped IPv6 address were parsed and normalized.
C20_Witness ==
    /\ step = "init"
    /\ {T3, T4, T7} \subseteq {given[i] : i \in 1..Len(given)}
    /\ Len(entries) = 3
    /\ Len(result) = 2

\* The comment markers of the parser the last call was made on.
MarkersOf(parser) == IF parser.impl = "NetsetParser" THEN NetsetMarkers ELSE PlainMarkers

\* A line survives line-level parsing: trimmed, it is not empty, does not
\* begin with a comment marker, and is an IP or a CIDR.
Survives(markers, l) ==
    /\ l # LongLine
    /\ TrimSpace(l) # <<>>
    /\ \A m \in markers : ~HasPrefix(TrimSpace(l), m)
    /\ parseIPOrCIDR(TrimSpace(l)).err = "nil"

\* The entries of the lines that survive, in body order, duplicates kept.
Survivors(markers, lines) ==
    Bind(SelectSeq(lines, LAMBDA l : Survives(markers, l)), LAMBDA kept :
        [i \in 1..Len(kept) |-> parseIPOrCIDR(TrimSpace(kept[i])).ipnet])

\* A step of parseBody, of either parser, has been taken.
IsParseBody == step \in {"PlainBody", "NetsetBody"}

\* C21: parseBody returns exactly the entries of the lines that survive
\* line-level parsing ("#", ";" and "//" being the plain parser's comment
\* markers and "#" the netset parser's only one), in body order with
\* duplicates kept, and drops every other line silently.
C21_ExactlyTheSurvivingLines ==
    IsParseBody =>
        /\ result.networks = Survivors(MarkersOf(entries.parser), given)
        /\ result.err \in {"nil", "novalid"}

\* C22: parseBody returns an error, never an empty success, exactly when no
\* line of the body survives line-level parsing; unparseable lines beside a
\* valid one never produce an error.
C22_ErrorExactlyWhenNothingSurvives ==
    IsParseBody =>
        /\ result.err # "nil" <=> Survivors(MarkersOf(entries.parser), given) = <<>>
        /\ result.err = "nil" => result.networks # <<>>

\* A success status.
IsSuccess(status) == status \in 200..299

\* C23: Parse returns entries only when the request completed with a success
\* status: a transport failure or a cancelled context gives a fetch error,
\* every status that is not a success status an unexpected-status error, and
\* in both cases no entries, whatever the body holds.
C23_EntriesOnlyOnSuccess ==
    step = "ParseFeed" =>
        /\ entries.resp.cause # "none" =>
              (result.err = "fetch" /\ result.networks = <<>>)
        /\ (entries.resp.cause = "none" /\ ~IsSuccess(entries.resp.status)) =>
              (result.err = "status" /\ result.networks = <<>>)
        /\ result.networks # <<>> =>
              (entries.resp.cause = "none" /\ IsSuccess(entries.resp.status))

\* Parse got a 404 response whose body holds a valid line, and returned the
\* unexpected-status error.
C23_Witness ==
    /\ step = "ParseFeed"
    /\ entries.resp.cause = "none"
    /\ entries.resp.status = 404
    /\ \E i \in 1..Len(given) : given[i] = L1
    /\ result.err = "status"

\* The names under which a parser of regs was registered.
RegisteredNames(regs) == {regs[i].name : i \in 1..Len(regs)}

\* The parser registered last under name n.
LastUnder(regs, n) ==
    regs[CHOOSE i \in 1..Len(regs) :
            regs[i].name = n /\ \A j \in (i + 1)..Len(regs) : regs[j].name # n]

\* C24: after any sequence of Register calls, Get(n) returns the parser
\* registered last under n and no error, Get of a name never registered
\* returns the unknown-parser error and no parser, and whatever List returns
\* holds exactly the registered names, each once.
C24_LastRegistrationWins ==
    /\ \A n \in StudyNames \cup {"greynoise"} :
          Get(result, n) = IF n \in RegisteredNames(given)
                           THEN [err |-> FALSE, parser |-> LastUnder(given, n)]
                           ELSE [err |-> TRUE, parser |-> NoParser]
    /\ List(result) # {}
    /\ \A names \in List(result) :
          /\ {names[i] : i \in 1..Len(names)} = RegisteredNames(given)
          /\ Len(names) = Cardinality(RegisteredNames(given))

\* A second parser was registered under a name already taken, and Get
\* returns the second.
C24_Witness ==
    /\ Len(given) = 3
    /\ given[1].name = given[3].name
    /\ given[1].impl # given[3].impl
    /\ given[2].name # given[1].name
    /\ Get(result, given[1].name).parser = given[3]
    /\ Cardinality(List(result)) = 2

\* The positions of the feed entries the file does not disable.
NotDisabled(docs) == {i \in 1..Len(docs) : docs[i].enabled \in {"true", "omitted"}}

\* C25: a feed entry whose enabled key is omitted is treated as enabled:
\* after Load it counts in EnabledCount, is returned by GetEnabled, is checked
\* by Validate and is looked up and fetched by Run.
C25_OmittedEnabledIsEnabled ==
    step = "Load" =>
        /\ \A i \in 1..Len(given) : given[i].enabled = "omitted" => entries[i].enabled
        /\ result.count = Cardinality(NotDisabled(given))
        /\ \A i \in NotDisabled(given) :
              \E k \in 1..Len(result.enabled) : result.enabled[k] = entries[i]
        /\ Len(result.enabled) = Cardinality(NotDisabled(given))
        /\ (\E i \in NotDisabled(given) : given[i].name = "") => ~result.valid
        /\ Len(result.lookups) = Cardinality(NotDisabled(given))

\* The parsers the README's table of available parsers lists.
ReadmeParsers == {"plain", "netset", "alienvault", "abuseipdb", "greynoise", "cloudflare"}

\* C26: every parser the README lists is registered at start-up: Get
\* succeeds for it, and an enabled feed configured with it is parsed in each
\* cycle rather than skipped as an unknown parser.
C26_ListedParsersAreRegistered ==
    last.err # "none" =>
        \A i \in EnabledIdx(feeds) :
            feeds[i].parser \in ReadmeParsers =>
                /\ ~Get(registry, feeds[i].parser).err
                /\ \E k \in 1..Len(last.parsed) : last.parsed[k] = feeds[i].name

\* The text of line before its first comment marker, trimmed.
BeforeComment(markers, line) ==
    LET starts == {i \in 1..Len(line) :
                      \E m \in markers : HasPrefix(SubSeq(line, i, Len(line)), m)}
    IN  IF starts = {} THEN TrimSpace(line)
        ELSE TrimSpace(SubSeq(line, 1, (CHOOSE i \in starts : \A j \in starts : i <= j) - 1))

\* C27: the plain parser strips "#", ";" and "//" comments from a line, so
\* a line that holds a valid IP or CIDR followed by a comment yields that IP
\* or CIDR as an entry (bodies without an over-long line).
C27_TrailingCommentStripped ==
    (step = "PlainBody" /\ \A i \in 1..Len(given) : given[i] # LongLine) =>
        \A i \in 1..Len(given) :
            parseIPOrCIDR(BeforeComment(PlainMarkers, given[i])).err = "nil" =>
                \E k \in 1..Len(result.networks) :
                    result.networks[k] = parseIPOrCIDR(BeforeComment(PlainMarkers, given[i])).ipnet

\* The canonical strings of the entries of networks.
StringsOf(networks) == {String(networks[i]) : i \in 1..Len(networks)}

\* C28: Normalize neither adds nor drops networks: its output has the
\* canonical strings of its input, one entry for each, and an entry inside
\* another entry's network is kept as an entry of its own.
C28_NeitherAddsNorDrops ==
    /\ StringsOf(result) = StringsOf(entries)
    /\ Len(result) = Cardinality(StringsOf(entries))
    /\ \A i, j \in 1..Len(entries) :
          Inside(entries[i], entries[j]) =>
              /\ \E k \in 1..Len(result) : String(result[k]) = String(entries[j])
              /\ \E k \in 1..Len(result) : String(result[k]) = String(entries[i])

\* A CIDR, an address inside it and the CIDR once more were normalized: two
\* entries came out.
C28_Witness ==
    /\ step = "init"
    /\ given = <<T4, T10, T3>>
    /\ Inside(entries[1], entries[2])
    /\ ToStrings(result) = <<T4, T10 \o <<47, 51, 50>> >>

\* The lists one after the other, as one list.
RECURSIVE Concatenation(_)
Concatenation(lists) ==
    IF lists = <<>> THEN <<>> ELSE Head(lists) \o Concatenation(Tail(lists))

\* C29: Merge of lists is Normalize of their concatenation; so it lists the
\* same networks in whatever order the lists are given, Merge of one list is
\* Normalize of that list, and Merge of no lists or of empty lists is empty.
C29_MergeIsNormalizeOfConcatenation ==
    /\ result = Normalize(Concatenation(entries))
    /\ \A p \in Orders[Len(entries)] :
          ToStrings(Merge(Reordered(entries, p))) = ToStrings(result)
    /\ Len(entries) = 1 => result = Normalize(entries[1])
    /\ (\A i \in 1..Len(entries) : entries[i] = <<>>) => result = <<>>

\* Two lists that share a network, one of them in two writings, were merged:
\* each network is listed once.
C29_Witness ==
    /\ step = "AddText"
    /\ given = <<<<T4, T1>>, <<T2>>>>
    /\ ToStrings(result) = <<T4, T2>>

\* The controller does not hold the group with the members of normalized.
Drifted(rem, normalized) ==
    \A i \in 1..Len(rem) :
        rem[i].name = GroupName => rem[i].members # ToStrings(normalized)

\* C30: when the group was edited or deleted outside the program and the
\* feeds yield the set whose fingerprint is lastHash, Run makes no remote call
\* and returns nil, and the controller stays as it is.
C30_DriftNotRepaired ==
    [][(/\ IsRun
        /\ calculateHash(last'.normalized) = syncer.lastHash
        /\ Drifted(remote, last'.normalized)) =>
          /\ last'.calls = <<>>
          /\ last'.err = "nil"
          /\ remote' = remote
          /\ syncer'.lastHash = syncer.lastHash]_vars

\* The group was deleted by hand after a push, and a later Run with the set
\* pushed returned nil without a call: the group is still missing.
C30_Witness ==
    /\ step = "ExternalDelete"
    /\ given[1] < runs
    /\ last.err = "nil"
    /\ last.calls = <<>>
    /\ syncer.lastHash = calculateHash(last.normalized)
    /\ ~GroupExists(remote)

\* The fingerprint of a list of members: the strings sorted, each followed by
\* a newline, hashed.
HashOfMembers(members) == Sha256Hex(JoinLines(SortStrings(members)))

\* C31: lastHash starts empty and changes only in a Run step: when that Run
\* made a create or update call that returned nil, lastHash becomes the
\* fingerprint of the members passed to that call; when the Run failed or
\* took the no-change path, lastHash stays what it was.  So lastHash is always
\* empty or the fingerprint of the members of the last create or update call
\* that succeeded.
C31_LastHashFollowsSuccessfulPush ==
    /\ syncer.lastHash = EmptyHash
    /\ [][/\ (~IsRun) => syncer'.lastHash = syncer.lastHash
          /\ IsRun =>
               \A pushed \in {SelectSeq(last'.calls,
                                 LAMBDA c : c.op \in {"createGroup", "updateGroup"} /\ c.err = "nil")} :
                   /\ Len(pushed) <= 1
                   /\ pushed # <<>> =>
                         /\ syncer'.lastHash = HashOfMembers(pushed[1].members)
                         /\ last'.err = "nil"
                   /\ pushed = <<>> => syncer'.lastHash = syncer.lastHash
                   /\ (last'.err # "nil" \/ last'.calls = <<>>) => pushed = <<>>]_vars

\* A Run failed in its create or update call after an earlier Run had pushed
\* another set: lastHash is still the fingerprint of the set pushed earlier.
C31_Witness ==
    /\ runs >= 2
    /\ last.err \notin {"none", "nil"}
    /\ Len(last.calls) = 2
    /\ syncer.lastHash # EmptyHash
    /\ syncer.lastHash # calculateHash(last.normalized)

\* No enabled feed of f gives an entry in world.
AllFeedsFail(f, world) == \A i \in EnabledIdx(f) : ~Succeeds(f, world, i)

\* The controller holds the group with no members.
GroupIsEmpty(rem) == \E i \in 1..Len(rem) : rem[i].name = GroupName /\ rem[i].members = <<>>

CancelledBeforeReconcile(l) ==
    l.ctx = "signal" /\ l.signalAt \in {"before", "fetch", "midfetch"}

\* C33: a Run whose context is cancelled before its reconcile stage begins
\* leaves the group on the controller and lastHash as they were: the fetches
\* after the cancellation fail, and every controller call it makes fails.
C33_CancelledRunPushesNothing ==
    [][(IsRun /\ CancelledBeforeReconcile(last')) =>
          /\ remote' = remote
          /\ syncer'.lastHash = syncer.lastHash
          /\ \A u \in Urls : (last'.signalAt # "midfetch" \/ u # "u1") => last'.world[u] = FetchErr
          /\ \A i \in 1..Len(last'.calls) : last'.calls[i].err = "canceled"
          /\ Mutating(last'.calls) # <<>> => last'.err # "nil"]_vars

\* The first feed had answered when the signal arrived: the Run has a partial
\* aggregate, its controller calls failed, and nothing was pushed.
C33_Witness ==
    /\ CancelledBeforeReconcile(last)
    /\ last.signalAt = "midfetch"
    /\ last.all # <<>>
    /\ Len(last.calls) = 2
    /\ last.err # "nil"
    /\ syncer.lastHash = EmptyHash
    /\ ~GroupExists(remote)

\* The controller refused both requests of the reconcile stage with an error
\* status, as it does when it no longer accepts the session.
SessionRejected(calls) ==
    Len(calls) = 2 /\ \A i \in 1..Len(calls) : calls[i].err = "status"

\* C34: group requests are sent only while loggedIn is true; Login is issued
\* only while loggedIn is false, so once main's Login has succeeded no Run
\* logs in again, whatever its requests return; nothing sets loggedIn back to
\* false; and a Run whose requests the controller rejects returns an error.
C34_NoSecondLogin ==
    [][/\ (pc = "login" /\ pc' # "login") => ~client.loggedIn
       /\ client.loggedIn => client'.loggedIn
       /\ IsRun =>
            /\ last'.calls # <<>> => client.loggedIn
            /\ last'.logins = 0
            /\ SessionRejected(last'.calls) => (last'.err # "nil" /\ client'.loggedIn)]_vars

\* Two cycles in a row were rejected by the controller and failed, and the
\* client, still marked logged in, did not log in again.
C34_Witness ==
    /\ healthEnabled
    /\ runs = 2
    /\ health.errorCount = 2
    /\ SessionRejected(last.calls)
    /\ last.logins = 0
    /\ last.err # "nil"
    /\ client.loggedIn

\* C35: in every reachable state the healthy flag is true and the liveness
\* endpoint answers a GET with 200, however many cycles have failed.
C35_AlwaysHealthy ==
    /\ health.healthy
    /\ handleHealth(health, "GET") = 200

\* Every cycle so far has failed, and the liveness endpoint still answers 200.
C35_Witness ==
    /\ healthEnabled
    /\ runs = MaxRuns
    /\ health.errorCount = MaxRuns
    /\ ~succeeded
    /\ ~health.ready
    /\ handleHealth(health, "GET") = 200

\* main has returned through the shutdown branch, and the health server, if
\* one was started, is stopped.
ShutDown == pc = "stopped" /\ active = 0 /\ ~health.serving

\* C36: after a shutdown signal main takes the shutdown branch, stops the
\* health server if one was started, and returns.  A scheduled Run in progress
\* is not interrupted: none of its requests is given up.
C36_ShutdownCompletes ==
    /\ (signal # "none") ~> ShutDown
    /\ [](last.ctx = "background" =>
             /\ last.world \in Worlds
             /\ \A i \in 1..Len(last.calls) : last.calls[i].err # "canceled")
    /\ [](pc = "stopped" => (signal # "none" /\ ~health.serving))
    /\ []((healthEnabled /\ pc \in {"initial", "initialRun", "loop", "tickRun"}) => health.serving)

\* main has shut down with the health server stopped, after a tick that was
\* pending at the signal had started one more cycle, which ran to its end and
\* pushed.
C36_Witness ==
    /\ ShutDown
    /\ healthEnabled
    /\ last.ctx = "background"
    /\ last.signalAt = "before"
    /\ last.err = "nil"
    /\ Len(last.calls) = 2

\* ----------------------------------------------------- Validate on its own
\* "http://" and "https://" as character codes.
HttpPrefix == <<104, 116, 116, 112, 58, 47, 47>>
HttpsPrefix == <<104, 116, 116, 112, 115, 58, 47, 47>>

\* The test Validate applies to unifi.url and to the url of an enabled feed.
HasHttpPrefix(url) == HasPrefix(url, HttpPrefix) \/ HasPrefix(url, HttpsPrefix)

\* A plausible variant of the loop: disabled feeds are checked like enabled
\* ones.
RECURSIVE checkFeeds_all(_, _, _)
checkFeeds_all(f, i, enabledCount) ==
    IF i > Len(f)
    THEN IF enabledCount = 0 THEN "at least one feed must be enabled" ELSE "nil"
    ELSE IF f[i].name = "" THEN "feed.name is required"
    ELSE IF f[i].url = <<>> THEN "feed.url is required"
    ELSE IF f[i].parser = "" THEN "feed.parser is required"
    ELSE IF ~HasHttpPrefix(f[i].url) THEN "feed.url must start with http:// or https://"
    ELSE checkFeeds_all(f, i + 1, enabledCount + (IF f[i].enabled THEN 1 ELSE 0))

\* Validate's loop over c.Feeds from index i on: a disabled feed is passed
\* over; an enabled one is counted and must have a name, a url, a parser and
\* an http(s) url; after the loop at least one feed must have been counted.
RECURSIVE checkFeeds(_, _, _)
checkFeeds(f, i, enabledCount) ==
    IF i > Len(f)
    THEN IF enabledCount = 0 THEN "at least one feed must be enabled" ELSE "nil"
    ELSE IF ~f[i].enabled THEN checkFeeds(f, i + 1, enabledCount)
    ELSE IF f[i].name = "" THEN "feed.name is required"
    ELSE IF f[i].url = <<>> THEN "feed.url is required"
    ELSE IF f[i].parser = "" THEN "feed.parser is required"
    ELSE IF ~HasHttpPrefix(f[i].url) THEN "feed.url must start with http:// or https://"
    ELSE checkFeeds(f, i + 1, enabledCount + 1)

\* Config.Validate: the error it returns, "nil" for none.  sync.interval is
\* in seconds.
Validate(c) ==
    IF c.unifi.url = <<>> THEN "unifi.url is required"
    ELSE IF ~HasHttpPrefix(c.unifi.url) THEN "unifi.url must start with http:// or https://"
    ELSE IF c.unifi.username = "" THEN "unifi.username is required"
    ELSE IF c.unifi.password = "" THEN "unifi.password is required"
    ELSE IF c.sync.interval < 60 THEN "sync.interval must be at least 1 minute"
    ELSE IF Len(c.feeds) = 0 THEN "at least one feed must be configured"
    ELSE checkFeeds(c.feeds, 1, 0)

\* Longest feed list of the configurations given to Validate.
MaxValidated == 2

\* The configurations given to Validate.
UniFiConfigs ==
    [url : {<<>>, <<99>>, HttpPrefix \o <<99>>, HttpsPrefix \o <<99>>},
     username : {"", "admin"}, password : {"", "secret"}]
SyncConfigs == [interval : {59, 60}]
CheckedFeeds ==
    [name : {"", "f1"}, url : {<<>>, <<102>>, HttpsPrefix \o <<102>>},
     parser : {"", "nosuch"}, enabled : BOOLEAN]
CheckedConfigs ==
    [unifi : {u \in UniFiConfigs : u.username # "" \/ u.password # ""},
     sync : SyncConfigs,
     feeds : UNION {[1..n -> CheckedFeeds] : n \in 0..MaxValidated}]

InitValidate ==
    /\ pc = "validate"
    /\ feeds = <<>>
    /\ healthEnabled = FALSE
    /\ syncer = New
    /\ client = [loggedIn |-> FALSE]
    /\ remote = <<>>
    /\ health = NewHealthServer
    /\ runs = 0
    /\ last = NoRun
    /\ twin = [syncer |-> New, client |-> [loggedIn |-> FALSE], remote |-> <<>>,
               health |-> NewHealthServer, calls |-> <<>>, err |-> "none"]
    /\ active = 0
    /\ signal = "none"
    /\ succeeded = FALSE
    /\ given \in CheckedConfigs
    /\ entries = <<>>
    /\ result = "none"
    /\ step = "init"

\* main: cfg.Validate() is called on the loaded configuration.
ValidateConfig ==
    /\ step = "init"
    /\ pc = "validate"
    /\ result' = Validate(given)
    /\ step' = "Validate"
    /\ UNCHANGED <<pc, feeds, healthEnabled, syncer, client, remote, health, runs, last, twin,
                   active, signal, succeeded, given, entries>>

NextValidate == ValidateConfig

SpecValidate == InitValidate /\ [][NextValidate]_vars

\* The conditions on the controller and the interval.
UniFiAndSyncOK(c) ==
    /\ c.unifi.url # <<>>
    /\ HasHttpPrefix(c.unifi.url)
    /\ c.unifi.username # ""
    /\ c.unifi.password # ""
    /\ c.sync.interval >= 60

\* The conditions on the feeds.
FeedsOK(f) ==
    /\ Len(f) >= 1
    /\ \E i \in 1..Len(f) : f[i].enabled
    /\ \A i \in 1..Len(f) :
          f[i].enabled =>
             /\ f[i].name # "" /\ f[i].url # <<>> /\ f[i].parser # ""
             /\ HasHttpPrefix(f[i].url)

\* c with every disabled feed emptied.
DisabledEmptied(c) ==
    [c EXCEPT !.feeds = [i \in 1..Len(c.feeds) |->
        IF c.feeds[i].enabled THEN c.feeds[i]
        ELSE [name |-> "", url |-> <<>>, parser |-> "", enabled |-> FALSE]]]

\* C37: Validate returns nil exactly when unifi.url is non-empty and begins
\* with http:// or https://, username and password are non-empty, the interval
\* is at least one minute, there is a feed, there is an enabled feed, and every
\* enabled feed has a name, a url, a parser and an http(s) url.  What a
\* disabled feed holds makes no difference, nor does whether the parser is
\* registered.
C37_ValidateExactly ==
    step = "Validate" =>
        /\ result = "nil" <=> (UniFiAndSyncOK(given) /\ FeedsOK(given.feeds))
        /\ result = Validate(DisabledEmptied(given))
        /\ \A i \in 1..Len(given.feeds) :
              result = Validate([given EXCEPT !.feeds[i].parser =
                                    IF @ = "" THEN "" ELSE "plain"])

\* Validate returned nil for a configuration with an empty disabled feed and
\* an enabled feed whose parser is not registered.
C37_Witness ==
    /\ step = "Validate"
    /\ result = "nil"
    /\ Len(given.feeds) = 2
    /\ ~given.feeds[1].enabled /\ given.feeds[1].name = "" /\ given.feeds[1].url = <<>>
    /\ given.feeds[2].enabled
    /\ Get(registry, given.feeds[2].parser).err

\* ----------------------------------------- FromStrings and ToStrings again
\* The loop of FromStrings from index i on: a string net.ParseCIDR accepts
\* gives its network; any other is tried with net.ParseIP, passed over when
\* that gives nil, and otherwise becomes the address with a mask of 32 ones
\* when To4 gives an address and of 128 ones when not.
RECURSIVE fromLoop(_, _, _)
fromLoop(strs, i, networks) ==
    IF i > Len(strs) THEN networks
    ELSE Bind(ParseCIDR(strs[i]), LAMBDA cidr :
             IF ~cidr.err THEN fromLoop(strs, i + 1, Append(networks, cidr.ipnet))
             ELSE Bind(ParseIP(strs[i]), LAMBDA ip :
                      IF ip = <<>> THEN fromLoop(strs, i + 1, networks)
                      ELSE Bind(IF To4(ip) # <<>> THEN 32 ELSE 128, LAMBDA size :
                               fromLoop(strs, i + 1,
                                        Append(networks, [ip |-> ip, bits |-> size, size |-> size])))))

\* A plausible variant: a string that is neither a CIDR nor an address is
\* reported.
FromStrings_strict(strs) ==
    Bind(fromLoop(strs, 1, <<>>), LAMBDA networks :
        [networks |-> networks,
         err |-> IF Len(networks) < Len(strs) THEN "invalid entry" ELSE "nil"])

\* FromStrings: the networks of the loop, and a nil error in every case.
FromStrings(strs) == [networks |-> fromLoop(strs, 1, <<>>), err |-> "nil"]

InitStrings ==
    /\ pc = "strings"
    /\ feeds = <<>>
    /\ healthEnabled = FALSE
    /\ syncer = New
    /\ client = [loggedIn |-> FALSE]
    /\ remote = <<>>
    /\ health = NewHealthServer
    /\ runs = 0
    /\ last = NoRun
    /\ twin = [syncer |-> New, client |-> [loggedIn |-> FALSE], remote |-> <<>>,
               health |-> NewHealthServer, calls |-> <<>>, err |-> "none"]
    /\ active = 0
    /\ signal = "none"
    /\ succeeded = FALSE
    /\ given \in UNION {[1..n -> Texts] : n \in 0..MaxLen}
    /\ entries = Normalize(Parsed(given))
    /\ result = [networks |-> <<>>, err |-> "none"]
    /\ step = "init"

\* The list Normalize returned is turned into strings and back.
RoundTrip ==
    /\ pc = "strings"
    /\ step = "init"
    /\ result' = FromStrings(ToStrings(entries))
    /\ step' = "RoundTrip"
    /\ UNCHANGED <<pc, feeds, healthEnabled, syncer, client, remote, health, runs, last, twin,
                   active, signal, succeeded, given, entries>>

\* The texts as given, among them one that is neither a CIDR nor an address,
\* are handed to FromStrings.
FromTexts ==
    /\ pc = "strings"
    /\ step = "init"
    /\ result' = FromStrings(given)
    /\ step' = "FromTexts"
    /\ UNCHANGED <<pc, feeds, healthEnabled, syncer, client, remote, health, runs, last, twin,
                   active, signal, succeeded, given, entries>>

NextStrings == RoundTrip \/ FromTexts

SpecStrings == InitStrings /\ [][NextStrings]_vars

\* The texts of texts that are a CIDR or an address.
Parseable(texts) == SelectSeq(texts, LAMBDA t : Parses[t].err = "nil")

\* C38: for a list x that Normalize returned, FromStrings(ToStrings(x)) has a
\* nil error and its canonical strings are ToStrings(x), in the same order;
\* ToStrings keeps length and order; FromStrings passes over every string that
\* is neither a CIDR nor an address and its error is nil all the same.
C38_StringsRoundTrip ==
    /\ step = "RoundTrip" =>
          \A strs \in {ToStrings(entries)} :
             /\ Len(strs) = Len(entries)
             /\ \A i \in 1..Len(entries) : strs[i] = String(entries[i])
             /\ result.err = "nil"
             /\ ToStrings(result.networks) = strs
    /\ step = "FromTexts" =>
          /\ result.err = "nil"
          /\ Len(result.networks) = Len(Parseable(given))
          /\ ToStrings(result.networks) = ToStrings(Parsed(given))

\* A list of three entries, among them the IPv4-mapped address and an IPv6
\* address, went through ToStrings and FromStrings and came back with the same
\* strings.
C38_Witness ==
    /\ step = "RoundTrip"
    /\ Len(entries) = 3
    /\ T7 \in {given[i] : i \in 1..Len(given)}
    /\ T5 \in {given[i] : i \in 1..Len(given)}
    /\ Len(result.networks) = 3
    /\ result.networks # entries

====
